---- MODULE Spec2Model ----
(***************************************************************************)
(* A model of the bioma-tool MCP server: the tool bridge                    *)
(* (tools/mod.rs), the echo, memory and fetch tools, the JSON-RPC method    *)
(* table and dispatch loop of start_server (lib.rs) and the stdio           *)
(* transport's reader (transport.rs).                                       *)
(***************************************************************************)
EXTENDS Integers, Sequences, FiniteSets, TLC

(***************************************************************************)
(* Bounds of the model.                                                     *)
(***************************************************************************)
\* number of lines the transport reads in one behaviour of Spec
MaxMsgs == 2
\* connections a WebSocket peer opens, and frames that are no text frames
MaxConns == 2
MaxSkips == 1
\* concurrent callers of the memory tool, and calls each makes
MaxCallers == 2
MaxMemCalls == 2
\* lines read in the specification of a session
MaxSession == 3
\* lines read in the specification of the channel: more than it can hold
MaxLines == 34

(***************************************************************************)
(* Options and JSON values (serde_json::Value).                             *)
(***************************************************************************)
None == [some |-> FALSE]
Some(x) == [some |-> TRUE, v |-> x]

JNull == [t |-> "null"]
JStr(s) == [t |-> "string", s |-> s]
JNum(n) == [t |-> "number", n |-> n]
JBool(b) == [t |-> "boolean", b |-> b]
\* an object with the single member k: n
JObj(k, n) == [t |-> "object", k |-> k, n |-> n]
\* an object given as the map from its member names to their values
JMap(map) == [t |-> "map", map |-> map]

\* the decimal digits of the small numbers the model uses
Digits(n) == CASE n = 0 -> "0" [] n = 1 -> "1" [] n = 2 -> "2" [] n = 3 -> "3"
               [] n = 4 -> "4" [] n = 5 -> "5" [] OTHER -> "9"

\* serde_json::to_string_pretty of a Value: two-space indentation, one
\* member per line
ToStringPretty(j) ==
    CASE j.t = "null" -> "null"
      [] j.t = "string" -> "\"" \o j.s \o "\""
      [] j.t = "number" -> Digits(j.n)
      [] j.t = "boolean" -> (IF j.b THEN "true" ELSE "false")
      [] j.t = "object" -> "{\n  \"" \o j.k \o "\": " \o Digits(j.n) \o "\n}"

\* to_string_pretty of a Vec<&String>: "[]" when empty, else one quoted
\* element per line
RECURSIVE PrettyItems(_)
PrettyItems(ks) ==
    IF Len(ks) = 0 THEN ""
    ELSE "\n  \"" \o Head(ks) \o "\"" \o (IF Len(ks) > 1 THEN "," ELSE "")
         \o PrettyItems(Tail(ks))

PrettyKeys(ks) == IF Len(ks) = 0 THEN "[]" ELSE "[" \o PrettyItems(ks) \o "\n]"

(***************************************************************************)
(* Tool results and tool errors.                                            *)
(***************************************************************************)
\* serde_json::to_value(TextContent {type_: "text", text, annotations: None})
TextContent(text) == [type |-> "text", text |-> text]

CallToolResult(content, is_error) ==
    [content |-> content, isError |-> is_error, meta |-> None]

\* the three variants of ToolError, each carrying its detail
ArgumentParse(detail) == [variant |-> "ArgumentParse", detail |-> detail]
Execution(detail) == [variant |-> "Execution", detail |-> detail]
ResultSerialize(detail) == [variant |-> "ResultSerialize", detail |-> detail]

Ok(r) == [ok |-> TRUE, val |-> r]
Err(e) == [ok |-> FALSE, err |-> e]

(***************************************************************************)
(* Argument shapes: the Properties struct of each tool, one descriptor per  *)
(* field in declaration order.  ord is the field's position among the       *)
(* struct's keys in the sorted order in which a BTreeMap is visited.        *)
(***************************************************************************)
Field(name, ty, optional, ord) ==
    [name |-> name, ty |-> ty, optional |-> optional, ord |-> ord]

MemoryAction == {"store", "retrieve", "list", "delete", "clear"}

\* an echo shape whose message is an Option
EchoPropertiesOptional == << Field("message", "String", TRUE, 1) >>

EchoProperties == << Field("message", "String", FALSE, 1) >>

MemoryProperties ==
    << Field("action", "MemoryAction", FALSE, 1),
       Field("key", "String", TRUE, 2),
       Field("value", "Value", TRUE, 3) >>

FetchProperties ==
    << Field("url", "String", FALSE, 4),
       Field("max_length", "usize", TRUE, 1),
       Field("start_index", "usize", TRUE, 3),
       Field("raw", "bool", TRUE, 2) >>

\* the `required` array of the schema text each tool's def() parses
ECHO_SCHEMA == [type |-> "object", properties |-> {"message"},
                required |-> <<"message">>]

\* a memory schema that also lists key as required
MEMORY_SCHEMA_KeyRequired ==
    [type |-> "object", properties |-> {"action", "key", "value"},
     required |-> <<"action", "key">>]

MEMORY_SCHEMA == [type |-> "object", properties |-> {"action", "key", "value"},
                  required |-> <<"action">>]

FETCH_SCHEMA == [type |-> "object",
                 properties |-> {"url", "max_length", "start_index", "raw"},
                 required |-> <<"url">>]

\* the tools a server registers, in registration order
ToolNames == <<"echo", "memory", "fetch">>

Properties(tool) ==
    CASE tool = "echo" -> EchoProperties
      [] tool = "memory" -> MemoryProperties
      [] tool = "fetch" -> FetchProperties

\* ToolDef::def as each tool overrides it: name and parsed input schema
Def(tool) ==
    [name |-> tool,
     input_schema |-> CASE tool = "echo" -> ECHO_SCHEMA
                        [] tool = "memory" -> MEMORY_SCHEMA
                        [] tool = "fetch" -> FETCH_SCHEMA]

(***************************************************************************)
(* serde deserialization of the untyped arguments into a Properties struct. *)
(***************************************************************************)
\* one JSON value into the field type ty
Deser(ty, j) ==
    CASE ty = "String" ->
           IF j.t = "string" THEN Ok(j.s) ELSE Err("invalid type")
      [] ty = "MemoryAction" ->
           IF j.t # "string" THEN Err("invalid type")
           ELSE IF j.s \in MemoryAction THEN Ok(j.s) ELSE Err("unknown variant")
      [] ty = "Value" -> Ok(j)
      [] ty = "usize" ->
           IF j.t = "number" /\ j.n >= 0 THEN Ok(j.n) ELSE Err("invalid type")
      [] ty = "bool" ->
           IF j.t = "boolean" THEN Ok(j.b) ELSE Err("invalid type")

\* one field of the struct out of the map: an Option field is None when the
\* key is absent or null, any other field must be present
DeserField(fd, map) ==
    IF fd.name \notin DOMAIN map
    THEN IF fd.optional THEN Ok(None) ELSE Err(<<"missing field", fd.name>>)
    ELSE IF fd.optional /\ map[fd.name] = JNull THEN Ok(None)
    ELSE LET r == Deser(fd.ty, map[fd.name])
         IN  IF r.ok THEN Ok(IF fd.optional THEN Some(r.val) ELSE r.val)
             ELSE Err(<<r.err, fd.name>>)

FieldNamed(fields, n) == fields[CHOOSE i \in 1..Len(fields) : fields[i].name = n]

\* serde_json::from_value::<Properties>(value): Value::Null is no struct; in
\* a map the first ill-typed entry (in key order) fails, then the first
\* missing non-Option field (in declaration order); unknown keys are ignored
FromValue(fields, value) ==
    IF value.t # "map" THEN Err(ArgumentParse(<<"invalid type", value.t>>))
    ELSE LET map == value.map
             idx == 1..Len(fields)
             illTyped == {i \in idx : fields[i].name \in DOMAIN map
                                      /\ ~DeserField(fields[i], map).ok}
             missing == {i \in idx : fields[i].name \notin DOMAIN map
                                     /\ ~DeserField(fields[i], map).ok}
         IN  IF illTyped # {}
             THEN LET i == CHOOSE i \in illTyped :
                               \A j \in illTyped : fields[i].ord <= fields[j].ord
                  IN  Err(ArgumentParse(DeserField(fields[i], map).err))
             ELSE IF missing # {}
             THEN LET i == CHOOSE i \in missing : \A j \in missing : i <= j
                  IN  Err(ArgumentParse(DeserField(fields[i], map).err))
             ELSE Ok([n \in {fields[i].name : i \in idx} |->
                         DeserField(FieldNamed(fields, n), map).val])

(***************************************************************************)
(* The tools' call bodies.  Each returns the Result of the call, whether    *)
(* the body ran, and the memory store after the call.                       *)
(***************************************************************************)
Success(message) == CallToolResult(<<TextContent(message)>>, Some(FALSE))
Error(message) == CallToolResult(<<TextContent(message)>>, Some(TRUE))

Outcome(res, store) == [res |-> res, store |-> store]

\* an echo that decorates the message
EchoCallPrefixed(props, store) ==
    Outcome(Ok(Success("Echo: " \o props.message)), store)

EchoCall(props, store) == Outcome(Ok(Success(props.message)), store)

\* an insert that keeps the value of a key already present
InsertIfAbsent(store, k, v) ==
    [x \in DOMAIN store \cup {k} |-> IF x \in DOMAIN store THEN store[x] ELSE v]

\* a remove that leaves the key in the map
RemoveKeeping(store, k) == store

\* HashMap::insert and HashMap::remove on the store
Insert(store, k, v) ==
    [x \in DOMAIN store \cup {k} |-> IF x = k THEN v ELSE store[x]]
Remove(store, k) == [x \in DOMAIN store \ {k} |-> store[x]]

\* a store that takes a missing value for null
StoreActionUnvalidated(props, store) ==
    IF ~props.key.some
    THEN Outcome(Ok(Error("Key is required for store action")), store)
    ELSE Outcome(Ok(Success("Successfully stored memory with key: " \o props.key.v)),
                 Insert(store, props.key.v,
                        IF props.value.some THEN props.value.v ELSE JNull))

StoreAction(props, store) ==
    IF ~props.key.some
    THEN Outcome(Ok(Error("Key is required for store action")), store)
    ELSE IF ~props.value.some
    THEN Outcome(Ok(Error("Value is required for store action")), store)
    ELSE Outcome(Ok(Success("Successfully stored memory with key: " \o props.key.v)),
                 Insert(store, props.key.v, props.value.v))

RetrieveAction(props, store) ==
    IF ~props.key.some
    THEN Outcome(Ok(Error("Key is required for retrieve action")), store)
    ELSE IF props.key.v \in DOMAIN store
    THEN Outcome(Ok(Success(ToStringPretty(store[props.key.v]))), store)
    ELSE Outcome(Ok(Success("No memory found for key: " \o props.key.v)), store)

\* order: the order in which the HashMap yields its keys
ListAction(store, order) == Outcome(Ok(Success(PrettyKeys(order))), store)

DeleteAction(props, store) ==
    IF ~props.key.some
    THEN Outcome(Ok(Error("Key is required for delete action")), store)
    ELSE IF props.key.v \in DOMAIN store
    THEN Outcome(Ok(Success("Successfully deleted memory with key: " \o props.key.v)),
                 Remove(store, props.key.v))
    ELSE Outcome(Ok(Success("No memory found to delete for key: " \o props.key.v)),
                 store)

ClearAction(store) ==
    Outcome(Ok(Success("Successfully cleared all memories")), <<>>)

\* Memory::call, under the store's lock from entry to return
MemoryCall(props, store, order) ==
    CASE props.action = "store" -> StoreAction(props, store)
      [] props.action = "retrieve" -> RetrieveAction(props, store)
      [] props.action = "list" -> ListAction(store, order)
      [] props.action = "delete" -> DeleteAction(props, store)
      [] props.action = "clear" -> ClearAction(store)

\* the URLs of the model: Url::parse accepts the http URL and the data URL,
\* and the data URL cannot be a base
ValidUrl(u) == u \in {"http://site/page", "data:text/plain,hi"}
CannotBeABase(u) == u = "data:text/plain,hi"

\* an error of the fetch tool's helpers, with its message
Custom(detail) == [variant |-> "Custom", detail |-> detail]

\* a panic of the call
Panic(detail) == Err([variant |-> "panic", detail |-> detail])

\* text is a sequence of characters; the character named U+00E9 takes two
\* bytes of UTF-8, every other one byte
Width(c) == IF c = "U+00E9" THEN 2 ELSE 1

RECURSIVE ByteLen(_)
ByteLen(t) == IF Len(t) = 0 THEN 0 ELSE Width(Head(t)) + ByteLen(Tail(t))

RECURSIVE Join(_)
Join(t) == IF Len(t) = 0 THEN "" ELSE Head(t) \o Join(Tail(t))

\* &content[start..] for start < content.len(): the text from byte offset
\* start, a panic when the offset is inside a character
RECURSIVE SliceFrom(_, _)
SliceFrom(t, start) ==
    IF start = 0 \/ Len(t) = 0 THEN Ok(t)
    ELSE IF start < Width(Head(t))
    THEN Panic("byte index is not a char boundary")
    ELSE SliceFrom(Tail(t), start - Width(Head(t)))

\* chars().take(n)
Take(t, n) == SubSeq(t, 1, IF n < Len(t) THEN n ELSE Len(t))

\* the number of characters returned when max_length is not given
DefaultMaxLength == 5000

\* the response to a request that was sent, and a request that failed
Response(status, content_type, body) ==
    [sent |-> TRUE, status |-> status, content_type |-> content_type, body |-> body]
SendError == [sent |-> FALSE]

\* a body that arrives and a body whose read fails
Body(chars) == [read |-> TRUE, chars |-> chars]
Unreadable == [read |-> FALSE]

\* html.trim().starts_with("<html"), for texts without outer white space
StartsWithHtml(chars) == Len(chars) >= 5 /\ Join(SubSeq(chars, 1, 5)) = "<html"

\* check_robots_txt: robots is the outcome of the request for /robots.txt,
\* whose body is "allows" or "disallows" as the matcher judges it for the
\* URL and the user agent
CheckRobotsTxt(url, robots) ==
    IF CannotBeABase(url)
    THEN Err(Custom("Failed to construct robots.txt URL: "
                    \o "relative URL with a cannot-be-a-base base"))
    ELSE IF ~robots.sent THEN Ok("assume allowed")
    ELSE IF robots.status \in 400..499 THEN Ok("assume allowed")
    ELSE IF robots.body = "unreadable"
    THEN Err(Custom("Failed to read robots.txt: error decoding response body"))
    ELSE IF robots.body = "disallows"
    THEN Err(Custom("Access denied by robots.txt"))
    ELSE Ok("allowed")

\* the requests check_robots_txt makes
RobotsRequests(url) == IF CannotBeABase(url) THEN <<>> ELSE <<"/robots.txt">>

\* fetch_url: the response, whatever its status, or the error of send
FetchUrl(page) == IF page.sent THEN Ok(page) ELSE Err("error sending request")

\* the last two steps of process_content on the content chosen
Limit(content, props) ==
    LET start == IF props.start_index.some THEN props.start_index.v ELSE 0
        max == IF props.max_length.some THEN props.max_length.v ELSE DefaultMaxLength
        from == IF start < ByteLen(content) THEN SliceFrom(content, start) ELSE Ok(<<>>)
    IN  IF from.ok THEN Ok(Take(from.val, max)) ELSE from

\* process_content: extract is what readability::extract and
\* html2md::parse_html make of the page
ProcessContent(response, props, extract) ==
    IF ~response.body.read
    THEN Err(Custom("Failed to get response text: error decoding response body"))
    ELSE IF (props.raw.some /\ props.raw.v)
            \/ ~(StartsWithHtml(response.body.chars)
                 \/ response.content_type = "text/html")
    THEN Limit(response.body.chars, props)
    ELSE IF ~extract.ok
    THEN Err(Custom("Failed to extract content: " \o extract.err))
    ELSE Limit(extract.val, props)

\* the end of Fetch::call: the text, the error result or the panic
FetchResult(content) ==
    IF content.ok THEN Ok(Success(Join(content.val)))
    ELSE IF content.err.variant = "panic" THEN content
    ELSE Ok(Error("Failed to process content: " \o content.err.detail))

\* Fetch::call in a world: the result and the requests made, in order
FetchRun(props, world) ==
    IF ~ValidUrl(props.url)
    THEN [res |-> Ok(Error("Invalid URL: relative URL without a base")),
          requests |-> <<>>]
    ELSE IF ~CheckRobotsTxt(props.url, world.robots).ok
    THEN [res |-> Ok(Error("Access denied by robots.txt: "
                           \o CheckRobotsTxt(props.url, world.robots).err.detail)),
          requests |-> RobotsRequests(props.url)]
    ELSE IF ~FetchUrl(world.page).ok
    THEN [res |-> Ok(Error("Failed to fetch URL: " \o FetchUrl(world.page).err)),
          requests |-> <<"/robots.txt", "page">>]
    ELSE [res |-> FetchResult(ProcessContent(world.page, props, world.extract)),
          requests |-> <<"/robots.txt", "page">>]

World(robots, page, extract) == [robots |-> robots, page |-> page, extract |-> extract]

\* what the network does to one fetch of the server's: robots.txt denies the
\* page, the page request fails, or a page comes back
NetOutcomes == {"denied", "unreachable", "page"}

PlainPage == Response(200, "text/plain", Body(<<"p", "a", "g", "e">>))

NetWorld(net) ==
    CASE net = "denied" -> World(Response(200, "text/plain", "disallows"), PlainPage,
                                 Err("no content"))
      [] net = "unreachable" -> World(Response(200, "text/plain", "allows"), SendError,
                                      Err("no content"))
      [] net = "page" -> World(Response(404, "", "allows"), PlainPage, Err("no content"))

\* Fetch::call
FetchCall(props, store, net) == Outcome(FetchRun(props, NetWorld(net)).res, store)

\* what a call draws from its environment: the key order of the store's
\* HashMap and the network's behaviour
Env(order, net) == [order |-> order, net |-> net]

\* ToolDef::call of the named tool
Call(tool, props, store, env) ==
    CASE tool = "echo" -> EchoCall(props, store)
      [] tool = "memory" -> MemoryCall(props, store, env.order)
      [] tool = "fetch" -> FetchCall(props, store, env.net)

\* ToolCallHandler::call_boxed: arguments to a JSON value, the value to the
\* tool's Properties, then the tool's call; called records whether the
\* tool's call body was entered
ArgsToValue(args) == IF args.some THEN JMap(args.v) ELSE JNull

CallBoxed(tool, args, store, env) ==
    LET properties == FromValue(Properties(tool), ArgsToValue(args))
    IN  IF ~properties.ok
        THEN [res |-> Err(properties.err), store |-> store, called |-> FALSE]
        ELSE LET out == Call(tool, properties.val, store, env)
             IN  [res |-> out.res, store |-> out.store, called |-> TRUE]

(***************************************************************************)
(* JSON-RPC: incoming lines, response envelopes, the method table.          *)
(***************************************************************************)
\* a channel with room for one more line
ChannelCapacityLarger == 32 + 1

\* capacity of the channel between the transport reader and the loop
ChannelCapacity == 32

\* One line of input.  json: the text parses as a JSON-RPC call object;
\* id: the call's id member, if any; method: its method member; compact: the
\* text holds `"method":"<name>` with no white space after the colon;
\* params: the params member, if any, as a map from member name to value.
Msg(id, method, compact, params) ==
    [json |-> TRUE, id |-> id, method |-> method, compact |-> compact,
     params |-> params]

Garbage == [json |-> FALSE, id |-> None, method |-> "", compact |-> FALSE,
            params |-> None]

\* jsonrpc_core's error codes
ErrorCode(name) ==
    CASE name = "ParseError" -> -32700
      [] name = "InvalidRequest" -> -32600
      [] name = "MethodNotFound" -> -32601
      [] name = "InvalidParams" -> -32602
      [] name = "InternalError" -> -32603

\* jsonrpc_core::Error values built by the handlers
RpcError(code, message) == [code |-> code, message |-> message]
internal_error == RpcError(ErrorCode("InternalError"), "Internal error")
\* a method_not_found that reports the internal-error code
method_not_found_internal == internal_error
method_not_found == RpcError(ErrorCode("MethodNotFound"), "Method not found")
invalid_params(detail) ==
    RpcError(ErrorCode("InvalidParams"), <<"Invalid params", detail>>)
parse_error == RpcError(ErrorCode("ParseError"), "Parse error")

\* the response texts: a success envelope, an error envelope (id None is the
\* JSON null id), and the empty string
\* a success envelope that loses the id
SuccessEnvelopeNullId(id, result) ==
    [jsonrpc |-> "2.0", kind |-> "result", id |-> None, result |-> result]
SuccessEnvelope(id, result) ==
    [jsonrpc |-> "2.0", kind |-> "result", id |-> id, result |-> result]
\* an error envelope that loses the id
ErrorEnvelopeNullId(id, error) ==
    [jsonrpc |-> "2.0", kind |-> "error", id |-> None, error |-> error]
ErrorEnvelope(id, error) ==
    [jsonrpc |-> "2.0", kind |-> "error", id |-> id, error |-> error]
EmptyString == [jsonrpc |-> "", kind |-> "empty"]

\* Output::from(result, id, jsonrpc)
OutputFrom(result, id) ==
    IF result.ok THEN SuccessEnvelope(id, result.val)
    ELSE ErrorEnvelope(id, result.err)

\* the static data of the server
Capabilities ==
    [tools |-> [listChanged |-> FALSE],
     resources |-> [listChanged |-> FALSE, subscribe |-> FALSE],
     prompts |-> [listChanged |-> FALSE]]
Resources == << [name |-> "example.txt", uri |-> "file:///example.txt"] >>
Prompts == << [name |-> "greet"] >>

\* Params::parse::<InitializeRequestParams>
ParseInitializeRequestParams(params) ==
    IF ~params.some THEN Err("invalid type")
    ELSE IF {"capabilities", "clientInfo", "protocolVersion"} \subseteq DOMAIN params.v
    THEN Ok([protocol_version |-> params.v.protocolVersion])
    ELSE Err("missing field")

\* Params::parse::<CallToolRequestParams>: name is required; arguments is
\* an Option of a map, None when the member is absent or null
ParseCallToolRequestParams(params) ==
    IF ~params.some THEN Err("invalid type")
    ELSE IF "arguments" \in DOMAIN params.v
            /\ params.v.arguments.t \notin {"map", "null"}
    THEN Err("invalid type")
    ELSE IF "name" \notin DOMAIN params.v THEN Err("missing field")
    ELSE Ok([name |-> params.v.name,
             arguments |-> IF "arguments" \in DOMAIN params.v
                              /\ params.v.arguments.t = "map"
                           THEN Some(params.v.arguments.map) ELSE None])

\* an initialize handler that leaves a mark in the memory store
InitializeHandlerStoring(params, store) ==
    [res |-> IF ~ParseInitializeRequestParams(params).ok
             THEN Err(invalid_params(ParseInitializeRequestParams(params).err))
             ELSE Ok([capabilities |-> Capabilities,
                      protocolVersion |->
                          ParseInitializeRequestParams(params).val.protocol_version,
                      serverInfo |-> [name |-> "rust-mcp-server",
                                      version |-> "0.1.0"],
                      instructions |-> "Basic MCP server with tool support"]),
     store |-> [x \in DOMAIN store \cup {"k1"} |-> JStr("initialized")],
     call |-> None]

\* a tools/list handler that lists the tools only once something is stored
ToolsListHandlerByStore(store) ==
    [res |-> Ok([nextCursor |-> [some |-> FALSE],
                 tools |-> IF store = <<>> THEN <<>> ELSE <<"echo", "memory", "fetch">>]),
     store |-> store, call |-> None]

\* a tools/list handler that pages: one tool and a cursor for the rest
ToolsListHandlerPaged(store) ==
    [res |-> Ok([nextCursor |-> [some |-> TRUE, v |-> "1"],
                 tools |-> <<[name |-> "echo"]>>]),
     store |-> store, call |-> None]

\* the handler of each entry of the method table; every one returns the
\* handler's Result and the store after it
Handled(res, store, call) == [res |-> res, store |-> store, call |-> call]

InitializeHandler(params, store) ==
    LET init_params == ParseInitializeRequestParams(params)
    IN  IF ~init_params.ok
        THEN Handled(Err(invalid_params(init_params.err)), store, None)
        ELSE Handled(Ok([capabilities |-> Capabilities,
                         protocolVersion |-> init_params.val.protocol_version,
                         serverInfo |-> [name |-> "rust-mcp-server",
                                         version |-> "0.1.0"],
                         instructions |-> "Basic MCP server with tool support"]),
                     store, None)

ResourcesListHandler(store) ==
    Handled(Ok([nextCursor |-> None, resources |-> Resources]), store, None)

PromptsListHandler(store) ==
    Handled(Ok([nextCursor |-> None, prompts |-> Prompts]), store, None)

ToolsListHandler(store) ==
    Handled(Ok([nextCursor |-> None,
                tools |-> [i \in 1..Len(ToolNames) |-> Def(ToolNames[i])]]),
            store, None)

\* tools.iter().find(|t| t.def().name == params.name)
FindTool(name) ==
    LET hits == {i \in 1..Len(ToolNames) : Def(ToolNames[i]).name = name}
    IN  IF hits = {} THEN None
        ELSE Some(ToolNames[CHOOSE i \in hits : \A j \in hits : i <= j])

\* a serialization that also leaves isError out when it is false
SerializeSkippingFalse(r) ==
    [m \in {"content"} \cup (IF r.isError = Some(TRUE) THEN {"isError"} ELSE {})
                       \cup (IF r.meta.some THEN {"_meta"} ELSE {}) |->
        CASE m = "content" -> r.content
          [] m = "isError" -> r.isError.v
          [] m = "_meta" -> r.meta.v]

\* serde_json::to_value of a CallToolResult: _meta and isError are left out
\* when None
SerializeCallToolResult(r) ==
    [m \in {"content"} \cup (IF r.isError.some THEN {"isError"} ELSE {})
                       \cup (IF r.meta.some THEN {"_meta"} ELSE {}) |->
        CASE m = "content" -> r.content
          [] m = "isError" -> r.isError.v
          [] m = "_meta" -> r.meta.v]

\* an error conversion that passes the tool error's detail on
ToolErrorLeak(e) == RpcError(ErrorCode("InternalError"), e.detail)

\* what a failed tool call becomes on the wire
ToolErrorToRpc(e) == internal_error

\* a handler that reports a failed call as a result with isError set
ToolCallResultIsError(out) ==
    Handled(IF out.res.ok
            THEN Ok(SerializeCallToolResult(out.res.val))
            ELSE Ok(SerializeCallToolResult(Error("Tool execution failed"))),
            out.store, Some(out))

\* the handler's Some(tool) arm, given what call_boxed returned: an Err is
\* mapped by map_err and returned by `?`, an Ok is serialized
ToolCallResult(out) ==
    Handled(IF out.res.ok
            THEN Ok(SerializeCallToolResult(out.res.val))
            ELSE Err(ToolErrorToRpc(out.res.err)),
            out.store, Some(out))

ToolsCallHandler(rawParams, store, env) ==
    LET params == ParseCallToolRequestParams(rawParams)
    IN  IF ~params.ok
        THEN Handled(Err(invalid_params(params.err)), store, None)
        ELSE LET tool == FindTool(params.val.name)
             IN  IF ~tool.some
                 THEN Handled(Err(method_not_found), store, None)
                 ELSE ToolCallResult(CallBoxed(tool.v, params.val.arguments,
                                               store, env))

\* the entries added with add_method / add_notification
RequestMethods ==
    {"initialize", "resources/list", "prompts/list", "tools/list", "tools/call"}
NotificationMethods == {"notifications/initialized", "cancelled"}

CallMethod(msg, store, env) ==
    CASE msg.method = "initialize" -> InitializeHandler(msg.params, store)
      [] msg.method = "resources/list" -> ResourcesListHandler(store)
      [] msg.method = "prompts/list" -> PromptsListHandler(store)
      [] msg.method = "tools/list" -> ToolsListHandler(store)
      [] msg.method = "tools/call" -> ToolsCallHandler(msg.params, store, env)

\* a cancelled handler that empties the memory store
NotificationHandlerClearing(msg, store) ==
    IF msg.method = "cancelled" THEN <<>> ELSE store

\* the handlers added with add_notification_with_meta: both only log, the
\* cancelled handler after parsing its params; the store is what it was
NotificationHandler(msg, store) == store

\* the output of a method call: the handler's Result under the call's id
MethodOutput(h, id) ==
    [out |-> Some(OutputFrom(h.res, id)), store |-> h.store, call |-> h.call]

\* MetaIoHandler::handle_request: text that is no JSON-RPC call is answered
\* with a parse error and the null id; a call with an id runs its method or
\* gets method-not-found; a call without an id runs its notification
\* handler, if any, and has no output
HandleRequest(msg, store, env) ==
    IF ~msg.json
    THEN [out |-> Some(ErrorEnvelope(None, parse_error)), store |-> store,
          call |-> None]
    ELSE IF msg.id.some
    THEN IF msg.method \in RequestMethods
         THEN MethodOutput(CallMethod(msg, store, env), msg.id)
         ELSE [out |-> Some(ErrorEnvelope(msg.id, method_not_found)),
               store |-> store, call |-> None]
    ELSE [out |-> None,
          store |-> IF msg.method \in NotificationMethods
                    THEN NotificationHandler(msg, store) ELSE store,
          call |-> None]

\* request.contains(r#""method":"<prefix>"#)
IsPrefix(p, t) == Len(p) <= Len(t) /\ SubSeq(t, 1, Len(p)) = p
Contains(msg, prefix) == msg.json /\ msg.compact /\ IsPrefix(prefix, msg.method)

\* the unwrap_or_else of the dispatch loop: the text used when
\* handle_request has no output
Fallback(msg) ==
    IF ~Contains(msg, "notifications/") /\ ~Contains(msg, "cancelled")
    THEN ErrorEnvelope(None, internal_error)
    ELSE EmptyString

\* handle_request's output, or the fallback text when it has none
UnwrapOrElse(h, msg) ==
    [response |-> IF h.out.some THEN h.out.v ELSE Fallback(msg),
     store |-> h.store, call |-> h.call]

\* one turn of the dispatch loop up to the response text
Respond(msg, store, env) == UnwrapOrElse(HandleRequest(msg, store, env), msg)

(***************************************************************************)
(* The lines a peer sends in the model, and the arguments tools are called  *)
(* with.                                                                    *)
(***************************************************************************)
Keys == {"k1", "k2"}
ValueA == JObj("a", 1)
ValueB == JStr("b")

CancelParams ==
    {Some([requestId |-> JNum(1), reason |-> JStr("stop")]),
     Some([reason |-> JStr("stop")])}

InitParams ==
    {Some([capabilities |-> JNull, clientInfo |-> JNull,
           protocolVersion |-> "2024-11-05"]),
     Some([capabilities |-> JNull, clientInfo |-> JNull])}

\* the params of the tools/call requests
CallParams ==
    {[name |-> "echo", arguments |-> JMap(<<>>)],
     [name |-> "echo", arguments |-> JMap([message |-> JStr("hi")])],
     [name |-> "echo", arguments |-> JMap([message |-> JStr("yo")])],
     [name |-> "echo", arguments |-> JMap([message |-> JNum(5)])],
     [name |-> "echo", arguments |-> JStr("hi")],
     [name |-> "memory",
      arguments |-> JMap([action |-> JStr("store"), key |-> JStr("k1"),
                          value |-> ValueA])],
     [name |-> "memory",
      arguments |-> JMap([action |-> JStr("retrieve"), key |-> JStr("k1")])],
     [name |-> "memory",
      arguments |-> JMap([action |-> JStr("store"), value |-> ValueA])],
     [name |-> "memory", arguments |-> JMap([action |-> JStr("bogus")])],
     [name |-> "fetch", arguments |-> JMap([url |-> JStr("http://site/page")])],
     [name |-> "fetch"],
     [name |-> "nonexistent", arguments |-> JMap([message |-> JStr("hi")])],
     [arguments |-> JMap([message |-> JStr("hi")])]}

\* The lines of the model, each without its id: the peer numbers its
\* requests, so a line that carries an id carries its arrival number.
Line(hasId, method, compact, params) ==
    [hasId |-> hasId, method |-> method, compact |-> compact, params |-> params]

Notifications ==
    {Line(FALSE, "notifications/initialized", c, None) : c \in BOOLEAN}
    \cup {Line(FALSE, "cancelled", c, p) : c \in BOOLEAN, p \in CancelParams}

\* lines without an id whose method has no notification handler, and lines
\* with an id whose method is registered as a notification
Misrouted ==
    {Line(FALSE, m, TRUE, None) : m \in {"ping", "tools/list"}}
    \cup {Line(TRUE, "cancelled", TRUE, Some([requestId |-> JNum(1)])),
          Line(TRUE, "notifications/initialized", TRUE, None)}

Requests ==
    {Line(TRUE, "tools/call", TRUE, Some(cp)) : cp \in CallParams}
    \cup {Line(TRUE, "initialize", TRUE, p) : p \in InitParams}
    \cup {Line(TRUE, m, TRUE, None) :
            m \in {"resources/list", "prompts/list", "tools/list", "ping"}}

Lines == Notifications \cup Requests \cup Misrouted

\* the text of a line as the n-th line read
Numbered(line, n) ==
    Msg(IF line.hasId THEN Some(n) ELSE None, line.method, line.compact, line.params)

\* what the n-th line read can be: one of Lines, or text that is no JSON
Msgs(n) == {Garbage} \cup {Numbered(l, n) : l \in Lines}

\* the values a call may give each argument, well typed and not
Samples(tool, field) ==
    CASE tool = "echo" -> {JStr("hi"), JStr("yo"), JNum(5)}
      [] tool = "memory" /\ field = "action" ->
           {JStr(a) : a \in MemoryAction} \cup {JStr("bogus"), JNum(5)}
      [] tool = "memory" /\ field = "key" -> {JStr(k) : k \in Keys} \cup {JNull, JNum(5)}
      [] tool = "memory" /\ field = "value" -> {ValueA, ValueB, JNull}
      [] tool = "fetch" /\ field = "url" ->
           {JStr("http://site/page"), JStr("not a url"), JNum(5)}
      [] tool = "fetch" /\ field = "max_length" -> {JNum(2), JStr("b")}
      [] tool = "fetch" /\ field = "start_index" -> {JNum(0)}
      [] tool = "fetch" /\ field = "raw" -> {JBool(TRUE)}

FieldNames(tool) == {Properties(tool)[i].name : i \in 1..Len(Properties(tool))}

\* every argument map over the tool's fields, and no arguments at all
ArgsOf(tool) ==
    {None} \cup
    UNION {{Some(m) : m \in {f \in [names -> UNION {Samples(tool, n) : n \in names}] :
                               \A n \in names : f[n] \in Samples(tool, n)}} :
           names \in SUBSET FieldNames(tool)}

\* the direct calls of SpecTools: a registered tool and arguments for it
ToolCalls ==
    UNION {{[tool |-> ToolNames[i], args |-> a] : a \in ArgsOf(ToolNames[i])} :
           i \in 1..Len(ToolNames)}

\* the orders in which a HashMap with these keys can yield them
Orders(keys) ==
    {o \in UNION {[1..Cardinality(keys) -> keys]} :
        \A i, j \in 1..Cardinality(keys) : i # j => o[i] # o[j]}

\* the environments a call of the tool can meet: only memory reads the key
\* order, only fetch the network
Envs(tool, store) ==
    {Env(o, n) : o \in (IF tool = "memory" THEN Orders(DOMAIN store) ELSE {<<>>}),
                 n \in (IF tool = "fetch" THEN NetOutcomes ELSE {"page"})}

\* the tool a line asks for, "" when it asks for none
ToolOf(msg) ==
    IF msg.json /\ msg.method = "tools/call" /\ ParseCallToolRequestParams(msg.params).ok
    THEN ParseCallToolRequestParams(msg.params).val.name
    ELSE ""

(***************************************************************************)
(* State.                                                                   *)
(***************************************************************************)
VARIABLES
    nread,      \* lines the transport reader has read
    rpc,        \* the reader task: "reading" or "done"
    queue,      \* the channel: lines read and not yet received by the loop
    dpc,        \* the dispatch loop: "recv", "handle", "send", "done", "failed"
    cur,        \* the line the loop is processing, with its arrival number
    response,   \* the response text of the line being processed
    log,        \* per line handled: the line, the tool call made, the response
    outbound,   \* the responses handed to send_response, in order
    store,      \* MEMORY_STORE
    last,       \* SpecTools: the latest direct tool call and its outcome
    shadow,     \* SpecTools: per key, the value of the latest store of it
                \* not followed by a delete of it or a clear
    writer,     \* WebSocketTransport.writer: None, or Some of the number of
                \* the connection whose write half it holds
    conn,       \* the connection ws_reader reads from, 0 when there is none
    accepted,   \* connections accepted so far
    wire,       \* the text frames written to peers, in order
    nskip,      \* inputs the reader met that did not decode to text
    result,     \* what the transport's start returned: None while it runs
    ended,      \* why the reader last left a read loop, "" before that
    wlock,      \* the holder of the writer handle's mutex, None when free
    mlock,      \* the holder of MEMORY_STORE's mutex, None when free
    mcall       \* SpecMemory: per caller, its position in Memory::call

wsVars == <<writer, conn, accepted, wire>>
readVars == <<result, ended>>
lockVars == <<wlock, mlock, mcall>>

vars == <<nread, rpc, queue, dpc, cur, response, log, outbound, store, last, shadow,
          wsVars, nskip, readVars, lockVars>>

serverVars == <<nread, rpc, queue, dpc, cur, response, log, outbound, wsVars, nskip,
                readVars, lockVars>>

NoLine == [n |-> 0, m |-> Garbage]

Init ==
    /\ nread = 0
    /\ rpc = "reading"
    /\ queue = <<>>
    /\ dpc = "recv"
    /\ cur = NoLine
    /\ response = EmptyString
    /\ log = <<>>
    /\ outbound = <<>>
    /\ store = <<>>
    /\ last = None
    /\ shadow = <<>>
    /\ writer = None
    /\ conn = 0
    /\ accepted = 0
    /\ wire = <<>>
    /\ nskip = 0
    /\ result = None
    /\ ended = ""
    /\ wlock = None
    /\ mlock = None
    /\ mcall = <<>>

(***************************************************************************)
(* The transport reader task (StdioTransport::start).                       *)
(***************************************************************************)
\* a channel that hands out the newest line first
EnqueueFront(q, item) == <<item>> \o q

\* what request_tx.send does with a line: it joins the channel's tail
Enqueue(q, item) == Append(q, item)

\* next_line yields a line and the line is sent into the channel; send
\* waits while the channel is full and fails once the loop has returned
ReadLineUpTo(m, max) ==
    /\ rpc = "reading"
    /\ nread < max
    /\ dpc \notin {"done", "failed"}
    /\ Len(queue) < ChannelCapacity
    /\ nread' = nread + 1
    /\ queue' = Enqueue(queue, [n |-> nread + 1, m |-> m])
    /\ UNCHANGED <<rpc, dpc, cur, response, log, outbound, store, last, shadow, wsVars, nskip,
                   readVars, lockVars>>

ReadLine(m) == ReadLineUpTo(m, MaxMsgs)

\* next_line yields Err for a line that is not valid UTF-8: the pattern
\* Ok(Some(line)) does not match, the while-let ends and start returns
ReadInvalidLine ==
    /\ rpc = "reading"
    /\ nskip' = nskip + 1
    /\ rpc' = "done"
    /\ result' = Some("Ok")
    /\ ended' = "invalid"
    /\ UNCHANGED <<nread, queue, dpc, cur, response, log, outbound, store, last, shadow,
                   wsVars, lockVars>>

\* next_line yields Err for an I/O error on stdin: the while-let ends and
\* start returns Ok(())
ReadError ==
    /\ rpc = "reading"
    /\ rpc' = "done"
    /\ result' = Some("Ok")
    /\ ended' = "error"
    /\ UNCHANGED <<nread, queue, dpc, cur, response, log, outbound, store, last, shadow,
                   wsVars, nskip, lockVars>>

\* end of input ends the while-let; so does a send into a channel whose
\* receiver is gone.  start returns Ok(()) and the sender is dropped
EndOfInput ==
    /\ rpc = "reading"
    /\ rpc' = "done"
    /\ result' = Some("Ok")
    /\ ended' = "eof"
    /\ UNCHANGED <<nread, queue, dpc, cur, response, log, outbound, store, last, shadow,
                   wsVars, nskip, lockVars>>

(***************************************************************************)
(* The dispatch loop of start_server.                                       *)
(***************************************************************************)
\* which queued line rx.recv() yields
NextLine(q) == Head(q)
Rest(q) == Tail(q)

Recv ==
    /\ dpc = "recv"
    /\ queue # <<>>
    /\ cur' = NextLine(queue)
    /\ queue' = Rest(queue)
    /\ dpc' = "handle"
    /\ UNCHANGED <<nread, rpc, response, log, outbound, store, last, shadow, wsVars, nskip,
                   readVars, lockVars>>

\* a recv that yields None as soon as the sender is dropped
RecvClosedEarly ==
    /\ dpc = "recv"
    /\ rpc = "done"
    /\ dpc' = "done"
    /\ UNCHANGED <<nread, rpc, queue, cur, response, log, outbound, store, last, shadow, wsVars, nskip,
                   readVars, lockVars>>

\* rx.recv() yields None: the channel is empty and its sender is dropped
RecvClosed ==
    /\ dpc = "recv"
    /\ queue = <<>>
    /\ rpc = "done"
    /\ dpc' = "done"
    /\ UNCHANGED <<nread, rpc, queue, cur, response, log, outbound, store, last, shadow, wsVars, nskip,
                   readVars, lockVars>>

\* handle_request, the fallback text and the is_empty test
\* a loop that goes on to the next line without sending the response
RespondedUnsent(r) ==
    /\ response' = r.response
    /\ store' = r.store
    /\ log' = Append(log, [n |-> cur.n, m |-> cur.m, call |-> r.call,
                           response |-> r.response])
    /\ dpc' = "recv"

Responded(r) ==
    /\ response' = r.response
    /\ store' = r.store
    /\ log' = Append(log, [n |-> cur.n, m |-> cur.m, call |-> r.call,
                           response |-> r.response])
    /\ dpc' = IF r.response = EmptyString THEN "recv" ELSE "send"

Handle ==
    /\ dpc = "handle"
    /\ \E env \in Envs(ToolOf(cur.m), store) : Responded(Respond(cur.m, store, env))
    /\ UNCHANGED <<nread, rpc, queue, cur, outbound, last, shadow, wsVars, nskip,
                   readVars, lockVars>>

\* a loop that carries on after a failed write
LoopAfterSendIgnoring(ok) == "recv"

\* where the loop goes when send_response has returned: on Err start_server
\* returns the error
LoopAfterSend(ok) == IF ok THEN "recv" ELSE "failed"

\* transport.send_response(response): the write succeeds, or fails and
\* start_server returns the error
SendResponse ==
    /\ dpc = "send"
    /\ \E ok \in BOOLEAN :
         /\ outbound' = Append(outbound, [n |-> cur.n, response |-> response, ok |-> ok])
         /\ dpc' = LoopAfterSend(ok)
    /\ UNCHANGED <<nread, rpc, queue, cur, response, log, store, last, shadow, wsVars, nskip,
                   readVars, lockVars>>

Next ==
    \/ \E m \in Msgs(nread + 1) : ReadLine(m)
    \/ ReadInvalidLine
    \/ EndOfInput
    \/ Recv
    \/ RecvClosed
    \/ Handle
    \/ SendResponse

Spec == Init /\ [][Next]_vars

\* send_response when stdout takes the writes
SendResponseWritten ==
    /\ dpc = "send"
    /\ outbound' = Append(outbound, [n |-> cur.n, response |-> response, ok |-> TRUE])
    /\ dpc' = LoopAfterSend(TRUE)
    /\ UNCHANGED <<nread, rpc, queue, cur, response, log, store, last, shadow, wsVars, nskip,
                   readVars, lockVars>>

NextLive ==
    \/ \E m \in Msgs(nread + 1) : ReadLine(m)
    \/ ReadInvalidLine
    \/ EndOfInput
    \/ Recv
    \/ RecvClosed
    \/ Handle
    \/ SendResponseWritten

\* the server whose writes succeed and whose loop task keeps being
\* scheduled: a line in the channel is received, and the loop does not stay
\* for ever in handle_request (tool calls return) or in send_response
SpecLive ==
    /\ Init /\ [][NextLive]_vars
    /\ WF_vars(Recv)
    /\ []<>(dpc # "handle") /\ []<>(dpc # "send")

\* the server on an input that ends or fails, with writes that may fail and
\* the loop's task scheduled: rx.recv() returns a line or None, and the loop
\* does not stay for ever in handle_request or in send_response
NextShutdown ==
    \/ \E m \in Msgs(nread + 1) : ReadLine(m)
    \/ ReadInvalidLine
    \/ ReadError
    \/ EndOfInput
    \/ Recv
    \/ RecvClosed
    \/ Handle
    \/ SendResponse

SpecShutdown ==
    /\ Init /\ [][NextShutdown]_vars
    /\ WF_vars(Recv) /\ WF_vars(RecvClosed)
    /\ []<>(dpc # "handle") /\ []<>(dpc # "send")

(***************************************************************************)
(* The channel under load: the same reader and loop, fed one request per    *)
(* line, with more lines than the channel holds.                            *)
(***************************************************************************)
PlainLine == Line(TRUE, "ping", TRUE, None)

ReadPlainLine == ReadLineUpTo(Numbered(PlainLine, nread + 1), MaxLines)

NextQueue ==
    \/ ReadPlainLine
    \/ ReadError
    \/ EndOfInput
    \/ Recv
    \/ RecvClosed
    \/ Handle
    \/ SendResponse

SpecQueue == Init /\ [][NextQueue]_vars

(***************************************************************************)
(* A session: the same reader and loop, fed initialize, the notifications,  *)
(* list requests with and without a cursor, and memory calls.               *)
(***************************************************************************)
Cursor == Some([cursor |-> JStr("c1")])

SessionLines ==
    {Line(TRUE, "initialize", TRUE,
          Some([capabilities |-> JNull, clientInfo |-> JNull,
                protocolVersion |-> "2024-11-05"])),
     Line(FALSE, "notifications/initialized", TRUE, None),
     Line(FALSE, "cancelled", TRUE, Some([requestId |-> JNum(1)])),
     Line(FALSE, "cancelled", FALSE, Some([requestId |-> JNum(9)])),
     Line(TRUE, "tools/list", TRUE, None),
     Line(TRUE, "tools/list", TRUE, Cursor),
     Line(TRUE, "resources/list", TRUE, Cursor),
     Line(TRUE, "prompts/list", TRUE, Cursor),
     Line(TRUE, "tools/call", TRUE,
          Some([name |-> "memory",
                arguments |-> JMap([action |-> JStr("store"), key |-> JStr("k1"),
                                    value |-> ValueA])])),
     Line(TRUE, "tools/call", TRUE,
          Some([name |-> "memory",
                arguments |-> JMap([action |-> JStr("retrieve"),
                                    key |-> JStr("k1")])]))}

ReadSessionLine ==
    \E l \in SessionLines : ReadLineUpTo(Numbered(l, nread + 1), MaxSession)

NextSession ==
    \/ ReadSessionLine
    \/ EndOfInput
    \/ Recv
    \/ RecvClosed
    \/ Handle
    \/ SendResponse

SpecSession == Init /\ [][NextSession]_vars

(***************************************************************************)
(* The server over WebSocketTransport: the reader task is                   *)
(* WebSocketTransport::start, the loop sends with its send_response.        *)
(***************************************************************************)
\* the text frames of the model
WsLines ==
    {Line(TRUE, "tools/list", TRUE, None),
     Line(FALSE, "notifications/initialized", TRUE, None)}

\* WebSocketTransport::new, and start_server up to the spawn of the reader
InitWs ==
    /\ nread = 0
    /\ rpc = "binding"
    /\ queue = <<>>
    /\ dpc = "recv"
    /\ cur = NoLine
    /\ response = EmptyString
    /\ log = <<>>
    /\ outbound = <<>>
    /\ store = <<>>
    /\ last = None
    /\ shadow = <<>>
    /\ writer = None
    /\ conn = 0
    /\ accepted = 0
    /\ wire = <<>>
    /\ nskip = 0
    /\ result = None
    /\ ended = ""
    /\ wlock = None
    /\ mlock = None
    /\ mcall = <<>>

\* TcpListener::bind: on failure start returns the error
WsBind ==
    /\ rpc = "binding"
    /\ \E ok \in BOOLEAN :
         /\ rpc' = IF ok THEN "accepting" ELSE "done"
         /\ result' = IF ok THEN None ELSE Some("Err")
         /\ ended' = IF ok THEN "" ELSE "bind"
    /\ UNCHANGED <<nread, queue, dpc, cur, response, log, outbound, store, last, shadow,
                   wsVars, nskip, lockVars>>

\* a listener that accepts while a connection is being read
WsAcceptAnytime ==
    /\ wlock = None
    /\ rpc \in {"accepting", "reading"}
    /\ accepted < MaxConns
    /\ accepted' = accepted + 1
    /\ writer' = Some(accepted + 1)
    /\ conn' = accepted + 1
    /\ rpc' = "reading"
    /\ UNCHANGED <<nread, queue, dpc, cur, response, log, outbound, store, last, shadow,
                   wire, nskip, readVars, lockVars>>

\* accept and the handshake succeed: the stream is split and its write half
\* is stored in the writer handle
WsAccept ==
    /\ wlock = None
    /\ rpc = "accepting"
    /\ accepted < MaxConns
    /\ accepted' = accepted + 1
    /\ writer' = Some(accepted + 1)
    /\ conn' = accepted + 1
    /\ rpc' = "reading"
    /\ UNCHANGED <<nread, queue, dpc, cur, response, log, outbound, store, last, shadow,
                   wire, nskip,
                   readVars, lockVars>>

\* accept yields Err and the while-let ends, or the handshake fails and
\* start returns the error
WsAcceptFail ==
    /\ rpc = "accepting"
    /\ rpc' = "done"
    /\ \E cause \in {"accept error", "handshake"} :
         /\ ended' = cause
         /\ result' = IF cause = "handshake" THEN Some("Err") ELSE Some("Ok")
    /\ UNCHANGED <<nread, queue, dpc, cur, response, log, outbound, store, last, shadow,
                   wsVars, nskip, lockVars>>

\* a text frame: its text is sent into the channel
WsText(m) ==
    /\ rpc = "reading"
    /\ nread < MaxMsgs
    /\ dpc \notin {"done", "failed"}
    /\ Len(queue) < ChannelCapacity
    /\ nread' = nread + 1
    /\ queue' = Enqueue(queue, [n |-> nread + 1, m |-> m, from |-> conn])
    /\ UNCHANGED <<rpc, dpc, cur, response, log, outbound, store, last, shadow,
                   wsVars, nskip,
                   readVars, lockVars>>

\* a text frame when the loop has returned: send fails and the frame loop
\* is left with break
WsTextUnsent ==
    /\ rpc = "reading"
    /\ dpc \in {"done", "failed"}
    /\ conn' = 0
    /\ rpc' = "accepting"
    /\ ended' = "unsent"
    /\ UNCHANGED <<nread, queue, dpc, cur, response, log, outbound, store, last, shadow,
                   writer, accepted, wire, nskip, result, lockVars>>

\* a Close frame handled without taking the writer handle's mutex
WsCloseFrameUnlocked ==
    /\ rpc = "reading"
    /\ writer' = None
    /\ conn' = 0
    /\ rpc' = "accepting"
    /\ ended' = "close"
    /\ UNCHANGED <<nread, queue, dpc, cur, response, log, outbound, store, last, shadow,
                   accepted, wire, nskip, result, lockVars>>

\* a Close frame: the writer handle is cleared and the frame loop is left
WsCloseFrame ==
    /\ wlock = None
    /\ rpc = "reading"
    /\ writer' = None
    /\ conn' = 0
    /\ rpc' = "accepting"
    /\ ended' = "close"
    /\ UNCHANGED <<nread, queue, dpc, cur, response, log, outbound, store, last, shadow,
                   accepted, wire, nskip, result, lockVars>>

\* the stream yields Err: the writer handle is cleared and the frame loop
\* is left
WsReadError ==
    /\ wlock = None
    /\ rpc = "reading"
    /\ writer' = None
    /\ conn' = 0
    /\ rpc' = "accepting"
    /\ ended' = "error"
    /\ UNCHANGED <<nread, queue, dpc, cur, response, log, outbound, store, last, shadow,
                   accepted, wire, nskip, result, lockVars>>

\* a binary, ping, pong or raw frame: continue
WsOtherFrame ==
    /\ rpc = "reading"
    /\ nskip < MaxSkips
    /\ nskip' = nskip + 1
    /\ UNCHANGED <<nread, rpc, queue, dpc, cur, response, log, outbound, store, last,
                   shadow, wsVars, readVars, lockVars>>

\* ws_reader.next() yields None: the while-let over the frames ends
WsEndOfStream ==
    /\ rpc = "reading"
    /\ conn' = 0
    /\ rpc' = "accepting"
    /\ ended' = "stream end"
    /\ UNCHANGED <<nread, queue, dpc, cur, response, log, outbound, store, last, shadow,
                   writer, accepted, wire, nskip, result, lockVars>>

\* a send that fails when no peer is tracked
WsSendUnconnectedFails(w, wr, item) ==
    IF w.some
    THEN {[ok |-> TRUE, wire |-> Append(wr, [conn |-> w.v, from |-> item.from,
                                             n |-> item.n,
                                             response |-> item.response])],
          [ok |-> FALSE, wire |-> wr]}
    ELSE {[ok |-> FALSE, wire |-> wr]}

\* the outcomes of WebSocketTransport::send_response for a non-empty text:
\* with a writer the frame is sent or the send fails; without one nothing
\* is done and the result is Ok
WsSend(w, wr, item) ==
    IF w.some
    THEN {[ok |-> TRUE, wire |-> Append(wr, [conn |-> w.v, from |-> item.from,
                                             n |-> item.n,
                                             response |-> item.response])],
          [ok |-> FALSE, wire |-> wr]}
    ELSE {[ok |-> TRUE, wire |-> wr]}

\* transport.send_response(response) of the dispatch loop
WsSendResponse ==
    /\ dpc = "send"
    /\ \E o \in WsSend(writer, wire, [n |-> cur.n, from |-> cur.from,
                                           response |-> response]) :
         /\ wire' = o.wire
         /\ outbound' = Append(outbound, [n |-> cur.n, response |-> response,
                                          ok |-> o.ok, to |-> writer])
         /\ dpc' = LoopAfterSend(o.ok)
    /\ UNCHANGED <<nread, rpc, queue, cur, response, log, store, last, shadow,
                   writer, conn, accepted, nskip,
                   readVars, lockVars>>

NextWs ==
    \/ WsBind
    \/ WsAccept
    \/ WsAcceptFail
    \/ \E l \in WsLines : WsText(Numbered(l, nread + 1))
    \/ WsTextUnsent
    \/ WsCloseFrame
    \/ WsReadError
    \/ WsOtherFrame
    \/ WsEndOfStream
    \/ Recv
    \/ RecvClosed
    \/ Handle
    \/ WsSendResponse

SpecWs == InitWs /\ [][NextWs]_vars

(***************************************************************************)
(* The same server with send_response in its steps: the mutex of the        *)
(* writer handle is taken, the frame is sent under it, and it is released   *)
(* when the if-let ends.                                                    *)
(***************************************************************************)
\* writer.lock().await of send_response
WsLockWriter ==
    /\ dpc = "send"
    /\ wlock = None
    /\ wlock' = Some("send_response")
    /\ dpc' = "sending"
    /\ UNCHANGED <<nread, rpc, queue, cur, response, log, outbound, store, last, shadow,
                   wsVars, nskip, readVars, mlock, mcall>>

\* the if-let under the guard: the send, if there is a writer, and the
\* release of the mutex
WsSendLocked ==
    /\ dpc = "sending"
    /\ \E o \in WsSend(writer, wire, [n |-> cur.n, from |-> cur.from,
                                           response |-> response]) :
         /\ wire' = o.wire
         /\ outbound' = Append(outbound, [n |-> cur.n, response |-> response,
                                          ok |-> o.ok, to |-> writer])
         /\ dpc' = LoopAfterSend(o.ok)
    /\ wlock' = None
    /\ UNCHANGED <<nread, rpc, queue, cur, response, log, store, last, shadow,
                   writer, conn, accepted, nskip, readVars, mlock, mcall>>

NextWsLock ==
    \/ WsBind
    \/ WsAccept
    \/ WsAcceptFail
    \/ \E l \in WsLines : WsText(Numbered(l, nread + 1))
    \/ WsTextUnsent
    \/ WsCloseFrame
    \/ WsReadError
    \/ WsOtherFrame
    \/ WsEndOfStream
    \/ Recv
    \/ RecvClosed
    \/ Handle
    \/ WsLockWriter
    \/ WsSendLocked

SpecWsLock == InitWs /\ [][NextWsLock]_vars

(***************************************************************************)
(* Tools called directly through the bridge, as the tools' tests do.        *)
(***************************************************************************)
\* the claim-level reading of a memory call: a store with a key and a value
\* sets the key, a delete with a key unsets it, a clear unsets all
Shadow(sh, props) ==
    IF props.action = "store" /\ props.key.some /\ props.value.some
    THEN [x \in DOMAIN sh \cup {props.key.v} |->
             IF x = props.key.v THEN props.value.v ELSE sh[x]]
    ELSE IF props.action = "delete" /\ props.key.some
    THEN [x \in DOMAIN sh \ {props.key.v} |-> sh[x]]
    ELSE IF props.action = "clear" THEN <<>>
    ELSE sh

ToolCall(tool, args) ==
    /\ \E env \in Envs(tool, store) :
         LET out == CallBoxed(tool, args, store, env)
             properties == FromValue(Properties(tool), ArgsToValue(args))
         IN  /\ store' = out.store
             /\ last' = Some([tool |-> tool, args |-> args, res |-> out.res,
                              called |-> out.called, before |-> store])
             /\ shadow' = IF tool = "memory" /\ properties.ok
                          THEN Shadow(shadow, properties.val) ELSE shadow
    /\ UNCHANGED serverVars

NextTools == \E c \in ToolCalls : ToolCall(c.tool, c.args)

SpecTools == Init /\ [][NextTools]_vars

(***************************************************************************)
(* Fetch::call called directly, as the tool's tests do, in every world of   *)
(* the model.                                                               *)
(***************************************************************************)
\* the Properties of the calls
FetchCalls ==
    {[url |-> u, max_length |-> m, start_index |-> i, raw |-> r] :
        u \in {"http://site/page", "not a url", "data:text/plain,hi"},
        m \in {None, Some(0), Some(2)},
        i \in {None, Some(1), Some(2), Some(3), Some(4)},
        r \in {None, Some(TRUE)}}

\* the texts a page has: none, ASCII, one with a two-byte character, HTML
PageTexts == {<<>>, <<"1", "2", "3">>, <<"U+00E9", "1", "2">>,
              <<"<", "h", "t", "m", "l", ">">>}

RobotsOutcomes ==
    {SendError} \cup
    {Response(st, "text/plain", b) :
        st \in {200, 404, 500}, b \in {"allows", "disallows", "unreadable"}}

PageOutcomes ==
    {SendError} \cup
    {Response(st, ct, b) :
        st \in {200, 404}, ct \in {"", "text/html"},
        b \in {Unreadable} \cup {Body(t) : t \in PageTexts}}

Worlds ==
    {World(r, p, e) : r \in RobotsOutcomes, p \in PageOutcomes,
                      e \in {Err("no content"), Ok(<<"m", "d">>)}}

InitFetch ==
    /\ nread = 0
    /\ rpc = "reading"
    /\ queue = <<>>
    /\ dpc = "recv"
    /\ cur = NoLine
    /\ response = EmptyString
    /\ log = <<>>
    /\ outbound = <<>>
    /\ store = <<>>
    /\ last \in {Some([stage |-> "called", props |-> p, world |-> w]) :
                    p \in FetchCalls, w \in Worlds}
    /\ shadow = <<>>
    /\ writer = None
    /\ conn = 0
    /\ accepted = 0
    /\ wire = <<>>
    /\ nskip = 0
    /\ result = None
    /\ ended = ""
    /\ wlock = None
    /\ mlock = None
    /\ mcall = <<>>

\* tool.call(props).await
FetchReturn ==
    /\ last.v.stage = "called"
    /\ last' = Some([stage |-> "returned", props |-> last.v.props,
                     world |-> last.v.world,
                     res |-> FetchRun(last.v.props, last.v.world).res,
                     requests |-> FetchRun(last.v.props, last.v.world).requests])
    /\ UNCHANGED <<store, shadow, serverVars>>

NextFetch == FetchReturn

SpecFetch == InitFetch /\ [][NextFetch]_vars

(***************************************************************************)
(* A CallToolResult serialized and parsed back.                             *)
(***************************************************************************)
\* Deserialize for CallToolResult: content is required, the members isError
\* and _meta are Options and None when absent
DeserializeCallToolResult(v) ==
    IF "content" \notin DOMAIN v THEN Err("missing field content")
    ELSE Ok([content |-> v["content"],
             isError |-> IF "isError" \in DOMAIN v THEN Some(v["isError"]) ELSE None,
             meta |-> IF "_meta" \in DOMAIN v THEN Some(v["_meta"]) ELSE None])

\* the results serialized: no, one and two content items, isError absent,
\* true and false, _meta absent, empty and with members
Contents == {<<>>, <<TextContent("a")>>, <<TextContent("")>>,
             <<TextContent("a"), ValueA>>, <<JNull>>}
Metas == {None, Some(<<>>), Some([progress |-> JNum(1)]),
          Some([progress |-> JNull, tag |-> ValueB])}
ToolResults ==
    {[content |-> c, isError |-> e, meta |-> m] :
        c \in Contents, e \in {None, Some(TRUE), Some(FALSE)}, m \in Metas}

InitRoundTrip ==
    /\ nread = 0
    /\ rpc = "reading"
    /\ queue = <<>>
    /\ dpc = "recv"
    /\ cur = NoLine
    /\ response = EmptyString
    /\ log = <<>>
    /\ outbound = <<>>
    /\ store = <<>>
    /\ last \in {Some([stage |-> "built", result |-> r]) : r \in ToolResults}
    /\ shadow = <<>>
    /\ writer = None
    /\ conn = 0
    /\ accepted = 0
    /\ wire = <<>>
    /\ nskip = 0
    /\ result = None
    /\ ended = ""
    /\ wlock = None
    /\ mlock = None
    /\ mcall = <<>>

SerializeResult ==
    /\ last.v.stage = "built"
    /\ last' = Some([stage |-> "serialized", result |-> last.v.result,
                     json |-> SerializeCallToolResult(last.v.result)])
    /\ UNCHANGED <<store, shadow, serverVars>>

ParseResult ==
    /\ last.v.stage = "serialized"
    /\ last' = Some([stage |-> "parsed", result |-> last.v.result,
                     json |-> last.v.json,
                     back |-> DeserializeCallToolResult(last.v.json)])
    /\ UNCHANGED <<store, shadow, serverVars>>

NextRoundTrip == SerializeResult \/ ParseResult

SpecRoundTrip == InitRoundTrip /\ [][NextRoundTrip]_vars

(***************************************************************************)
(* Memory::call under concurrent callers: the lock of MEMORY_STORE is       *)
(* taken on entry, the action runs under the guard, and the guard is        *)
(* dropped when call returns.                                               *)
(***************************************************************************)
Callers == 1..MaxCallers

\* the Properties the callers pass
MemoryCalls ==
    {FromValue(MemoryProperties, JMap(a)).val :
        a \in {[action |-> JStr("store"), key |-> JStr("k1"), value |-> ValueA],
               [action |-> JStr("store"), key |-> JStr("k1"), value |-> ValueB],
               [action |-> JStr("store"), value |-> ValueA],
               [action |-> JStr("retrieve"), key |-> JStr("k1")],
               [action |-> JStr("delete"), key |-> JStr("k1")],
               [action |-> JStr("list")],
               [action |-> JStr("clear")]}}

InitMemory ==
    /\ nread = 0
    /\ rpc = "reading"
    /\ queue = <<>>
    /\ dpc = "recv"
    /\ cur = NoLine
    /\ response = EmptyString
    /\ log = <<>>
    /\ outbound = <<>>
    /\ store = <<>>
    /\ last = None
    /\ shadow = <<>>
    /\ writer = None
    /\ conn = 0
    /\ accepted = 0
    /\ wire = <<>>
    /\ nskip = 0
    /\ result = None
    /\ ended = ""
    /\ wlock = None
    /\ mlock = None
    /\ mcall = [p \in Callers |-> [pc |-> "idle", done |-> 0]]

\* MEMORY_STORE.lock(): the caller waits while another holds the lock
MemLock(p, props) ==
    /\ mcall[p].pc = "idle"
    /\ mcall[p].done < MaxMemCalls
    /\ mlock = None
    /\ mlock' = Some(p)
    /\ mcall' = [mcall EXCEPT ![p] = [pc |-> "locked", done |-> mcall[p].done,
                                      props |-> props, before |-> store]]
    /\ UNCHANGED <<nread, rpc, queue, dpc, cur, response, log, outbound, store, last,
                   shadow, wsVars, nskip, readVars, wlock>>

\* the match on properties.action, under the guard
MemOperate(p) ==
    /\ mcall[p].pc = "locked"
    /\ \E order \in Orders(DOMAIN store) :
         /\ store' = MemoryCall(mcall[p].props, store, order).store
         /\ mcall' = [mcall EXCEPT ![p] =
                         [pc |-> "operated", done |-> mcall[p].done,
                          props |-> mcall[p].props, before |-> mcall[p].before,
                          res |-> MemoryCall(mcall[p].props, store, order).res]]
    /\ UNCHANGED <<nread, rpc, queue, dpc, cur, response, log, outbound, last,
                   shadow, wsVars, nskip, readVars, wlock, mlock>>

\* a return that keeps the lock when the result is an error result
MemReturnKeepingOnError(p) ==
    /\ mcall[p].pc = "operated"
    /\ mlock' = IF mcall[p].res.val.isError = Some(TRUE) THEN mlock ELSE None
    /\ mcall' = [mcall EXCEPT ![p] = [pc |-> "idle", done |-> mcall[p].done + 1,
                                      res |-> mcall[p].res]]
    /\ UNCHANGED <<nread, rpc, queue, dpc, cur, response, log, outbound, store, last,
                   shadow, wsVars, nskip, readVars, wlock>>

\* call returns, by `return`, `?` or its last expression: the guard is
\* dropped
MemReturn(p) ==
    /\ mcall[p].pc = "operated"
    /\ mlock' = None
    /\ mcall' = [mcall EXCEPT ![p] = [pc |-> "idle", done |-> mcall[p].done + 1,
                                      res |-> mcall[p].res]]
    /\ UNCHANGED <<nread, rpc, queue, dpc, cur, response, log, outbound, store, last,
                   shadow, wsVars, nskip, readVars, wlock>>

NextMemory ==
    \/ \E p \in Callers, props \in MemoryCalls : MemLock(p, props)
    \/ \E p \in Callers : MemOperate(p)
    \/ \E p \in Callers : MemReturn(p)

SpecMemory == InitMemory /\ [][NextMemory]_vars

(***************************************************************************)
(* Properties of the server (Spec).                                         *)
(***************************************************************************)
\* the positions in outbound of the responses to the n-th line
SentFor(n) == {i \in DOMAIN outbound : outbound[i].n = n}

\* the loop is through with the n-th line
Completed(n) ==
    \/ n < cur.n
    \/ n = cur.n /\ dpc \in {"recv", "done", "failed"}

IsRequest(m) == m.json /\ m.id.some
IsToolsCall(m) ==
    IsRequest(m) /\ m.method = "tools/call" /\ ParseCallToolRequestParams(m.params).ok
CallOf(m) == ParseCallToolRequestParams(m.params).val
Registered == {ToolNames[i] : i \in 1..Len(ToolNames)}

\* C1: responses are handed to send_response in the order in which their
\* requests were read: along outbound the arrival numbers strictly increase.
C1_ResponsesInArrivalOrder ==
    \A i, j \in DOMAIN outbound : i < j => outbound[i].n < outbound[j].n

\* two tools/call requests were read back to back and both were answered
C1_Witness ==
    /\ Len(outbound) = 2
    /\ Len(log) = 2
    /\ \A k \in 1..2 : IsToolsCall(log[k].m) /\ log[k].call.some
    /\ outbound[1].n = 1 /\ outbound[2].n = 2

\* C2: a tools/call request naming no registered tool gets the error
\* envelope with code -32601 and the request's id, and once the loop is
\* through with the request exactly that one response was handed out.
C2_UnknownToolMethodNotFound ==
    \A k \in DOMAIN log :
        LET e == log[k]
        IN  (IsToolsCall(e.m) /\ CallOf(e.m).name \notin Registered) =>
              /\ e.response.kind = "error"
              /\ e.response.error.code = -32601
              /\ e.response.id = e.m.id
              /\ \A i \in SentFor(e.n) : outbound[i].response = e.response
              /\ Completed(e.n) => Cardinality(SentFor(e.n)) = 1

C2_Witness ==
    \E k \in DOMAIN log :
        /\ IsToolsCall(log[k].m) /\ CallOf(log[k].m).name = "nonexistent"
        /\ log[k].m.id = Some(2)
        /\ Completed(log[k].n)
        /\ SentFor(log[k].n) # {}

IsNotification(m) == m.json /\ ~m.id.some /\ m.method \in NotificationMethods

\* C3: a notifications/initialized or cancelled notification never causes
\* a write: its response text is empty and nothing is handed to
\* send_response for it, whatever its text and params.
C3_NotificationsSilent ==
    \A k \in DOMAIN log :
        IsNotification(log[k].m) =>
            log[k].response = EmptyString /\ SentFor(log[k].n) = {}

\* C4: a tool result with isError true travels in a success envelope, and
\* an unknown tool and ill-shaped arguments or params travel as an error
\* object; no result with isError true stands for a protocol failure.
C4_IsErrorIsSuccessEnvelope ==
    \A k \in DOMAIN log :
        LET e == log[k]
            flagged == e.response.kind = "result"
                       /\ "isError" \in DOMAIN e.response.result
                       /\ e.response.result.isError
        IN  /\ (e.call.some /\ e.call.v.res.ok /\ e.call.v.res.val.isError = Some(TRUE))
                 => e.response = SuccessEnvelope(e.m.id,
                                    SerializeCallToolResult(e.call.v.res.val))
            /\ (IsRequest(e.m) /\ e.m.method = "tools/call"
                  /\ (~e.call.some \/ ~e.call.v.res.ok))
                 => e.response.kind = "error"
            /\ flagged => (e.call.some /\ e.call.v.res.ok)

\* a memory call that fails validation and a call with ill-shaped arguments
\* were both answered
C4_Witness ==
    /\ \E k \in DOMAIN log :
          /\ log[k].call.some /\ log[k].call.v.res.ok
          /\ log[k].call.v.res.val.isError = Some(TRUE)
          /\ SentFor(log[k].n) # {}
    /\ \E k \in DOMAIN log :
          /\ log[k].call.some /\ ~log[k].call.v.res.ok
          /\ SentFor(log[k].n) # {}

IsEchoOf(m, s) ==
    /\ IsToolsCall(m)
    /\ CallOf(m).name = "echo"
    /\ CallOf(m).arguments = Some([message |-> JStr(s)])

EchoMessages == {"hi", "yo"}

\* C5: tools/call of echo with arguments {message: m} is answered with the
\* success envelope of the request's id whose result is content = [the text
\* item m] and isError = false.
C5_EchoEchoes ==
    \A k \in DOMAIN log : \A s \in EchoMessages :
        IsEchoOf(log[k].m, s) =>
            log[k].response =
                SuccessEnvelope(log[k].m.id,
                                [content |-> << [type |-> "text", text |-> s] >>,
                                 isError |-> FALSE])

C5_Witness ==
    /\ Len(log) = 2
    /\ IsEchoOf(log[1].m, "hi") /\ IsEchoOf(log[2].m, "yo")
    /\ \A k \in 1..2 : \E i \in SentFor(k) : outbound[i].ok

\* the tool call of the line failed with a ToolError
ToolFailed(e) == e.call.some /\ ~e.call.v.res.ok

\* the line is a tools/call for a registered tool whose arguments are JSON
\* of another shape than the tool's: no map at all, or a map call_boxed
\* could not turn into the tool's Properties
ArgumentsMismatch(e) ==
    /\ IsRequest(e.m) /\ e.m.method = "tools/call" /\ e.m.params.some
    /\ {"name", "arguments"} \subseteq DOMAIN e.m.params.v
    /\ e.m.params.v.name \in Registered
    /\ \/ e.m.params.v.arguments.t \notin {"map", "null"}
       \/ ToolFailed(e) /\ e.call.v.res.err.variant = "ArgumentParse"

\* C7: a tools/call whose arguments do not match the tool's argument shape
\* is answered with a JSON-RPC error of code -32602 (invalid params).
C7_ArgumentErrorsInvalidParams ==
    \A k \in DOMAIN log :
        ArgumentsMismatch(log[k]) =>
            /\ log[k].response.kind = "error"
            /\ log[k].response.error.code = -32602

WithoutId(resp) == [resp EXCEPT !.id = None]

\* C10: whenever a tool invocation returns a ToolError the response is the
\* internal-error envelope (-32603, "Internal error") with the request's
\* id, so the responses to two failed calls differ in their ids at most.
C10_ToolErrorsAreGeneric ==
    /\ \A k \in DOMAIN log :
          ToolFailed(log[k]) =>
              log[k].response =
                  ErrorEnvelope(log[k].m.id, RpcError(-32603, "Internal error"))
    /\ \A k, l \in DOMAIN log :
          (ToolFailed(log[k]) /\ ToolFailed(log[l])) =>
              WithoutId(log[k].response) = WithoutId(log[l].response)

\* two calls failed with different ToolError values and both were answered
C10_Witness ==
    \E k, l \in DOMAIN log :
        /\ ToolFailed(log[k]) /\ ToolFailed(log[l])
        /\ log[k].call.v.res.err # log[l].call.v.res.err
        /\ SentFor(log[k].n) # {} /\ SentFor(log[l].n) # {}

(***************************************************************************)
(* Properties of the tools called through the bridge (SpecTools).           *)
(***************************************************************************)
PropsOf(c) == FromValue(Properties(c.tool), ArgsToValue(c.args))

\* C6: a retrieve of key k returns the value of the latest store of k not
\* followed by a delete of k or a clear: the text is that value, printed.
C6_RetrieveLatestStore ==
    last.some =>
        LET c == last.v
        IN  (/\ c.tool = "memory" /\ PropsOf(c).ok
             /\ PropsOf(c).val.action = "retrieve"
             /\ PropsOf(c).val.key.some
             /\ PropsOf(c).val.key.v \in DOMAIN shadow) =>
                c.res = Ok(CallToolResult(
                             <<TextContent(ToStringPretty(shadow[PropsOf(c).val.key.v]))>>,
                             Some(FALSE)))

\* a retrieve of one of two stored keys returned {"a": 1}, pretty-printed
C6_Witness ==
    /\ last.some /\ last.v.tool = "memory" /\ PropsOf(last.v).ok
    /\ PropsOf(last.v).val.action = "retrieve"
    /\ PropsOf(last.v).val.key = Some("k1")
    /\ DOMAIN shadow = Keys
    /\ shadow["k1"] = ValueA
    /\ last.v.res.ok
    /\ last.v.res.val.content[1].text = "{\n  \"a\": 1\n}"

\* the latest direct call was a memory call whose body ran
MemoryCalled == last.some /\ last.v.tool = "memory" /\ last.v.called

\* the text of a result with one text item
TextOf(res) == res.val.content[1].text

\* C31: the store holds exactly the keys stored and not since deleted or
\* cleared; list prints exactly those keys, "[]" when there are none, and a
\* retrieve of a key that is not among them finds nothing.
C31_ListIsLiveKeys ==
    /\ DOMAIN store = DOMAIN shadow
    /\ MemoryCalled =>
          /\ PropsOf(last.v).val.action = "list" =>
                /\ last.v.res.ok /\ last.v.res.val.isError = Some(FALSE)
                /\ \E o \in Orders(DOMAIN shadow) :
                      TextOf(last.v.res) = PrettyKeys(o)
                /\ shadow = <<>> => TextOf(last.v.res) = "[]"
          /\ (/\ PropsOf(last.v).val.action = "retrieve"
              /\ PropsOf(last.v).val.key.some
              /\ PropsOf(last.v).val.key.v \notin DOMAIN shadow) =>
                last.v.res = Ok(Success("No memory found for key: "
                                        \o PropsOf(last.v).val.key.v))

\* a list that prints the one key left of the two stored: the other was
\* deleted
C31_Witness ==
    /\ MemoryCalled /\ PropsOf(last.v).val.action = "list"
    /\ DOMAIN shadow = {"k2"}
    /\ TextOf(last.v.res) = "[\n  \"k2\"\n]"

\* the memory calls that fail validation
FailsValidation(props) ==
    \/ props.action = "store" /\ (~props.key.some \/ ~props.value.some)
    \/ props.action \in {"retrieve", "delete"} /\ ~props.key.some

\* C38: a memory call that fails validation returns an error result and
\* leaves the store as it was; retrieve and list leave the store as it was,
\* and so does the delete of a key that is not in it.
C38_FailedCallsLeaveStore ==
    MemoryCalled =>
        /\ FailsValidation(PropsOf(last.v).val) =>
              /\ last.v.res.ok /\ last.v.res.val.isError = Some(TRUE)
              /\ store = last.v.before
        /\ PropsOf(last.v).val.action \in {"retrieve", "list"} =>
              store = last.v.before
        /\ (/\ PropsOf(last.v).val.action = "delete"
            /\ PropsOf(last.v).val.key.some
            /\ PropsOf(last.v).val.key.v \notin DOMAIN last.v.before) =>
              store = last.v.before

\* a store with a key and no value was refused and a store of two keys is
\* as it was
C38_Witness ==
    /\ MemoryCalled
    /\ PropsOf(last.v).val.action = "store"
    /\ PropsOf(last.v).val.key = Some("k1") /\ ~PropsOf(last.v).val.value.some
    /\ last.v.res.val.isError = Some(TRUE)
    /\ DOMAIN store = Keys /\ store = last.v.before

RequiredOf(tool) ==
    {Def(tool).input_schema.required[i] :
        i \in 1..Len(Def(tool).input_schema.required)}

OmitsRequired(c) ==
    ~c.args.some \/ \E f \in RequiredOf(c.tool) : f \notin DOMAIN c.args.v

\* C8: call_boxed with arguments that omit a field the tool's schema lists
\* as required, or with no arguments, returns ToolError::ArgumentParse and
\* does not enter the tool's call body (the store is as before).
C8_OmittedRequiredIsArgumentParse ==
    last.some =>
        (OmitsRequired(last.v) =>
            /\ ~last.v.res.ok
            /\ last.v.res.err.variant = "ArgumentParse"
            /\ ~last.v.called
            /\ store = last.v.before)

\* memory was called with a key and a value but no action, on a store that
\* holds something
C8_Witness ==
    /\ last.some /\ last.v.tool = "memory" /\ last.v.args.some
    /\ DOMAIN last.v.args.v = {"key", "value"}
    /\ last.v.before # <<>>
    /\ ~last.v.res.ok

\* every argument present is of its field's type
WellTyped(c) ==
    /\ c.args.some
    /\ \A i \in 1..Len(Properties(c.tool)) :
          Properties(c.tool)[i].name \in DOMAIN c.args.v =>
              /\ c.args.v[Properties(c.tool)[i].name] # JNull
              /\ Deser(Properties(c.tool)[i].ty,
                       c.args.v[Properties(c.tool)[i].name]).ok

\* C9: def()'s required list names exactly the fields deserialization
\* requires: [message] for echo, [action] for memory, [url] for fetch, and a
\* call with well-typed arguments is refused exactly when it omits a listed
\* field.
C9_RequiredIsWhatDeserializationRequires ==
    /\ RequiredOf("echo") = {"message"}
    /\ RequiredOf("memory") = {"action"}
    /\ RequiredOf("fetch") = {"url"}
    /\ last.some =>
          (WellTyped(last.v) => (OmitsRequired(last.v) <=> ~last.v.res.ok))

\* memory accepted a call that gives an action and neither key nor value
C9_Witness ==
    /\ last.some /\ last.v.tool = "memory" /\ WellTyped(last.v)
    /\ DOMAIN last.v.args.v = {"action"}
    /\ last.v.called

(***************************************************************************)
(* Properties of the server (Spec): routing of unknown methods, messages    *)
(* without an id, and text that is no JSON-RPC.                             *)
(***************************************************************************)
InTable(method) == method \in RequestMethods \cup NotificationMethods

\* C11: a message without an id whose method is not in the method table
\* is ignored in silence: its response text is empty and nothing is handed
\* to send_response for it.
C11_UnknownNotificationSilent ==
    \A k \in DOMAIN log :
        (log[k].m.json /\ ~log[k].m.id.some /\ ~InTable(log[k].m.method)) =>
            log[k].response = EmptyString /\ SentFor(log[k].n) = {}

\* C12: a message with an id whose method is not in the method table is
\* answered with the error envelope of code -32601 under the request's id,
\* and once the loop is through with it exactly one response was handed out.
C12_UnknownRequestMethodNotFound ==
    \A k \in DOMAIN log :
        LET e == log[k]
        IN  (IsRequest(e.m) /\ ~InTable(e.m.method)) =>
              /\ e.response.kind = "error"
              /\ e.response.error.code = -32601
              /\ e.response.id = e.m.id
              /\ \A i \in SentFor(e.n) : outbound[i].response = e.response
              /\ Completed(e.n) => Cardinality(SentFor(e.n)) = 1

\* the second line read was a ping request and its answer was handed out
C12_Witness ==
    \E k \in DOMAIN log :
        /\ IsRequest(log[k].m) /\ log[k].m.method = "ping"
        /\ log[k].m.id = Some(2)
        /\ Completed(log[k].n)
        /\ Cardinality(SentFor(log[k].n)) = 1

\* C13: a message whose method is notifications/... or cancelled never
\* produces a response, with or without an id.
C13_ReservedMethodsSilent ==
    \A k \in DOMAIN log :
        (log[k].m.json /\ (IsPrefix("notifications/", log[k].m.method)
                            \/ log[k].m.method = "cancelled")) =>
            log[k].response = EmptyString /\ SentFor(log[k].n) = {}

\* C14: a JSON-RPC message without an id is never answered, whatever its
\* method.
C14_NoIdNeverAnswered ==
    \A k \in DOMAIN log :
        (log[k].m.json /\ ~log[k].m.id.some) =>
            log[k].response = EmptyString /\ SentFor(log[k].n) = {}

\* C15: text that is no JSON-RPC envelope is dropped: the loop has no
\* response for it and hands nothing to send_response for it.
C15_UnparseableDropped ==
    \A k \in DOMAIN log :
        ~log[k].m.json =>
            log[k].response = EmptyString /\ SentFor(log[k].n) = {}

(***************************************************************************)
(* Properties of the channel and of the loop's sequencing.                  *)
(***************************************************************************)
\* C16: the channel never holds more than 32 lines and is FIFO: while the
\* loop runs, the lines dequeued so far followed by the lines in the channel
\* are the lines read, each once and in read order.  (SpecQueue numbers its
\* requests: the id of the n-th line read is n.)
C16_ChannelBoundedFifo ==
    /\ Len(queue) <= 32
    /\ \A k \in DOMAIN log : log[k].n = k /\ log[k].m.id = Some(k)
    /\ dpc \notin {"done", "failed"} =>
          /\ cur.n + Len(queue) = nread
          /\ cur.n > 0 => cur.m.id = Some(cur.n)
          /\ \A i \in DOMAIN queue :
                queue[i].n = cur.n + i /\ queue[i].m.id = Some(cur.n + i)

\* the channel is full behind the first line, which the loop is handling,
\* and the reader has line 34 to send
C16_Witness ==
    /\ Len(queue) = 32
    /\ nread = 33
    /\ rpc = "reading"
    /\ cur.n = 1 /\ dpc = "handle"

\* C17: one line is in processing at a time: when the loop holds line n,
\* every earlier line has been handled, and each that had a response has
\* had it handed to send_response, once.
C17_OneAtATime ==
    /\ Len(log) = IF dpc = "handle" THEN cur.n - 1 ELSE cur.n
    /\ \A k \in 1..(cur.n - 1) :
          /\ log[k].n = k
          /\ log[k].response # EmptyString =>
                /\ Cardinality(SentFor(k)) = 1
                /\ \A i \in SentFor(k) : outbound[i].ok

\* the loop holds the second line and the first line's response was sent
C17_Witness ==
    /\ cur.n = 2 /\ dpc = "handle"
    /\ log[1].response # EmptyString
    /\ Cardinality(SentFor(1)) = 1

\* C20: the reader's step that meets an input that does not decode leaves
\* the read loop where it is: the input is skipped and reading goes on.
C20_UndecodableInputSkipped == [][nskip' > nskip => rpc' = rpc]_vars

(***************************************************************************)
(* Properties of the WebSocket transport (SpecWs).                          *)
(***************************************************************************)
\* the loop's step out of "send" is a call of send_response
Sends == dpc = "send" /\ dpc' # "send"

\* C18: send_response with the writer handle absent writes nothing,
\* returns Ok and leaves the handle absent, and the response is on no
\* connection's wire afterwards.
C18_UnconnectedSendIsNoOp ==
    /\ [][(Sends /\ writer = None) =>
            /\ wire' = wire
            /\ writer' = None
            /\ dpc' = "recv"
            /\ outbound' = Append(outbound, [n |-> cur.n, response |-> response,
                                             ok |-> TRUE, to |-> None])]_vars
    /\ [](\A i \in DOMAIN outbound :
            outbound[i].to = None =>
                /\ outbound[i].ok
                /\ \A j \in DOMAIN wire : wire[j].n # outbound[i].n)

\* a response was sent while no peer was tracked, and a later connection
\* is open with nothing of it on the wire
C18_Witness ==
    /\ accepted = 2 /\ writer = Some(2) /\ conn = 2
    /\ \E i \in DOMAIN outbound :
         /\ outbound[i].to = None /\ outbound[i].ok
         /\ \A j \in DOMAIN wire : wire[j].n # outbound[i].n

\* C19: the writer handle is present exactly when the reader has a
\* connection open.
C19_WriterIffConnected == writer.some <=> conn # 0

(***************************************************************************)
(* Properties of failing reads and writes.                                  *)
(***************************************************************************)
\* C21: when a read fails with an I/O error, start has terminated and has
\* returned Err.
C21_ReadErrorReturned ==
    ended = "error" => rpc = "done" /\ result = Some("Err")

\* C22: a failed write is the last thing the loop does: send_response
\* returned Err, start_server has returned the error, and no line after
\* the one being answered was dequeued, handled or answered.
C22_WriteErrorStopsLoop ==
    \A i \in DOMAIN outbound :
        ~outbound[i].ok =>
            /\ dpc = "failed"
            /\ i = Len(outbound)
            /\ cur.n = outbound[i].n
            /\ Len(log) = outbound[i].n

\* the write of the first line's response failed while the second line
\* was waiting in the channel
C22_Witness ==
    /\ Len(outbound) = 1 /\ ~outbound[1].ok
    /\ nread = 2 /\ Len(queue) = 1
    /\ rpc = "done"

(***************************************************************************)
(* Properties of a session (SpecSession): what the handling of one message  *)
(* leaves behind for the next.                                              *)
(***************************************************************************)
\* the environment of a call that reads neither the key order nor the net
Env0 == Env(<<>>, "page")

\* the memory store after the lines of log before position k are handled in
\* order from the empty store, those in skip left out
RECURSIVE StoreBefore(_, _)
StoreBefore(k, skip) ==
    IF k = 1 THEN <<>>
    ELSE IF (k - 1) \in skip THEN StoreBefore(k - 1, skip)
    ELSE Respond(log[k - 1].m, StoreBefore(k - 1, skip), Env0).store

\* the log and the store are those of the session without the lines in skip
SameWithout(skip) ==
    /\ \A k \in DOMAIN log \ skip :
          log[k].response = Respond(log[k].m, StoreBefore(k, skip), Env0).response
    /\ store = StoreBefore(Len(log) + 1, skip)

Cancellations ==
    {k \in DOMAIN log : log[k].m.json /\ ~log[k].m.id.some
                        /\ log[k].m.method = "cancelled"}

\* C23: a cancelled notification has no functional effect: the responses
\* to all other lines, and the memory store at the end, are those of the
\* same session with the cancelled notifications taken out.
C23_CancelledHasNoEffect == SameWithout(Cancellations)

\* a value was stored, a cancellation naming that request was handled, and
\* the value was then retrieved
C23_Witness ==
    /\ Len(log) = 3
    /\ Cancellations = {2}
    /\ log[1].call.some /\ log[3].call.some
    /\ "k1" \in DOMAIN store
    /\ log[3].call.v.res.val.content[1].text = ToStringPretty(ValueA)

Initializes ==
    {k \in DOMAIN log : IsRequest(log[k].m) /\ log[k].m.method = "initialize"
                        /\ ParseInitializeRequestParams(log[k].m.params).ok}

\* C24: handling initialize mutates no state: the session is the one
\* without its initialize requests; and every initialize request whose
\* params parse gets the same capabilities and serverInfo in its result.
C24_InitializeMutatesNothing ==
    /\ SameWithout(Initializes)
    /\ \A k \in Initializes :
          /\ log[k].response.kind = "result"
          /\ log[k].response.result.capabilities =
                [tools |-> [listChanged |-> FALSE],
                 resources |-> [listChanged |-> FALSE, subscribe |-> FALSE],
                 prompts |-> [listChanged |-> FALSE]]
          /\ log[k].response.result.serverInfo =
                [name |-> "rust-mcp-server", version |-> "0.1.0"]
          /\ \A j \in Initializes :
                /\ log[j].response.result.capabilities =
                      log[k].response.result.capabilities
                /\ log[j].response.result.serverInfo =
                      log[k].response.result.serverInfo

\* initialize was handled before and after a memory store, and the stored
\* value is in the store
C24_Witness ==
    /\ Len(log) = 3
    /\ Initializes = {1, 3}
    /\ log[2].call.some
    /\ "k1" \in DOMAIN store

Handshakes ==
    {k \in DOMAIN log : log[k].m.json
                        /\ log[k].m.method \in {"initialize", "notifications/initialized"}}

StaticMethods == {"initialize", "tools/list", "resources/list", "prompts/list"}

\* C25: the response to initialize and to the three list requests is the
\* one the message gets from a server that has handled nothing, whatever
\* was handled before; and every line is served as in the session without
\* the initialize requests and notifications/initialized notifications.
C25_StatelessAcrossMessages ==
    /\ \A k \in DOMAIN log :
          (IsRequest(log[k].m) /\ log[k].m.method \in StaticMethods) =>
              log[k].response = Respond(log[k].m, <<>>, Env0).response
    /\ SameWithout(Handshakes)

\* tools/list was answered after an initialize and a memory store
C25_Witness ==
    /\ Len(log) = 3
    /\ log[1].m.method = "initialize"
    /\ log[2].call.some /\ "k1" \in DOMAIN store
    /\ log[3].m.method = "tools/list" /\ log[3].response.kind = "result"

\* the names of the items of a list result, in order
Names(items) == [i \in DOMAIN items |-> items[i].name]

ListRequests(method) ==
    {k \in DOMAIN log : IsRequest(log[k].m) /\ log[k].m.method = method}

\* C26: every tools/list, resources/list and prompts/list request is
\* answered with the whole collection in registration order and no next
\* cursor, with or without a cursor in its params and however often it is
\* repeated.
C26_ListsAreComplete ==
    /\ \A k \in ListRequests("tools/list") :
          /\ log[k].response.kind = "result"
          /\ Names(log[k].response.result.tools) = <<"echo", "memory", "fetch">>
          /\ log[k].response.result.nextCursor = None
    /\ \A k \in ListRequests("resources/list") :
          /\ log[k].response.kind = "result"
          /\ Names(log[k].response.result.resources) = <<"example.txt">>
          /\ log[k].response.result.nextCursor = None
    /\ \A k \in ListRequests("prompts/list") :
          /\ log[k].response.kind = "result"
          /\ Names(log[k].response.result.prompts) = <<"greet">>
          /\ log[k].response.result.nextCursor = None

\* tools/list was answered three times running, with and without a
\* cursor
C26_Witness ==
    /\ ListRequests("tools/list") = {1, 2, 3}
    /\ log[1].m.params = None
    /\ log[2].m.params = Cursor
    /\ Len(outbound) = 3

(***************************************************************************)
(* Properties of the WebSocket listener and of the writer handle's mutex.   *)
(***************************************************************************)
\* C27: one connection is read at a time: a connection is accepted only
\* when none is being read, the connection read and the writer tracked are
\* those of the latest accept, and the frames in the channel come from the
\* connections in the order of their accepts.
C27_OneConnectionAtATime ==
    /\ [](/\ conn \in {0, accepted}
          /\ writer \in {None, Some(accepted)}
          /\ \A i \in DOMAIN queue :
                /\ queue[i].from \in 1..accepted
                /\ \A j \in DOMAIN queue : i < j => queue[i].from <= queue[j].from)
    /\ [][/\ accepted' # accepted => conn = 0 /\ conn' = accepted'
          /\ nread' # nread => conn # 0 /\ queue'[Len(queue')].from = conn]_vars

\* a frame of the first connection is being handled while a frame of the
\* second waits in the channel and the second connection is being read
C27_Witness ==
    /\ accepted = 2 /\ conn = 2 /\ writer = Some(2)
    /\ dpc = "handle" /\ cur.from = 1
    /\ Len(queue) = 1 /\ queue[1].from = 2

\* the ways a connection ends
ConnectionEnds == {"close", "error", "stream end", "unsent", "handshake"}

\* C28: after a connection has ended, a failed handshake included, the
\* listener is still there to accept the next peer: start has not returned.
C28_ListenerKeepsAccepting ==
    ended \in ConnectionEnds => rpc \in {"accepting", "reading"} /\ result = None

\* C29: the writer handle is set or cleared only while no send holds its
\* mutex, a send is in progress exactly while send_response holds it, and a
\* frame written goes to the writer the handle holds at that moment.
C29_WriterMutuallyExclusive ==
    /\ [](dpc = "sending" <=> wlock = Some("send_response"))
    /\ [][/\ writer' # writer => wlock = None /\ dpc # "sending"
          /\ wire' # wire => /\ writer.some /\ writer' = writer
                              /\ wire'[Len(wire')].conn = writer.v]_vars

\* a send is in progress on the first connection's writer while the reader
\* reads that connection
C29_Witness ==
    /\ dpc = "sending" /\ wlock = Some("send_response")
    /\ writer = Some(1) /\ conn = 1 /\ rpc = "reading"

(***************************************************************************)
(* Properties of the memory tool's lock (SpecMemory).                       *)
(***************************************************************************)
InCall(p) == mcall[p].pc \in {"locked", "operated"}

\* C30: the lock of MEMORY_STORE is held by a caller exactly from its
\* entry into call to its return, whatever the result; and each call is
\* atomic: the store it works on is the one it found when it took the
\* lock, and until it returns the store is the one it left.
C30_LockHeldForOneOperation ==
    \A p \in Callers :
        /\ mlock = Some(p) <=> InCall(p)
        /\ mcall[p].pc = "locked" => store = mcall[p].before
        /\ mcall[p].pc = "operated" =>
              \E order \in Orders(DOMAIN mcall[p].before) :
                  MemoryCall(mcall[p].props, mcall[p].before, order) =
                      Outcome(mcall[p].res, store)

\* the first caller has returned an error result, the second caller then
\* took the lock and has stored a value
C30_Witness ==
    /\ mcall[1].pc = "idle" /\ mcall[1].done = 1
    /\ mcall[1].res.val.isError = Some(TRUE)
    /\ mcall[2].pc = "operated" /\ mlock = Some(2)
    /\ "k1" \in DOMAIN store

(***************************************************************************)
(* Properties of the serialized CallToolResult (SpecRoundTrip).             *)
(***************************************************************************)
\* C32: a CallToolResult serialized and parsed back is the result that was
\* serialized: the same content, isError and meta, whether isError and meta
\* are present or absent.
C32_RoundTrip ==
    last.v.stage = "parsed" =>
        /\ last.v.back.ok
        /\ last.v.back.val.content = last.v.result.content
        /\ last.v.back.val.isError = last.v.result.isError
        /\ last.v.back.val.meta = last.v.result.meta

\* a result with isError false and no meta came back: its JSON has the
\* members content and isError and no _meta
C32_Witness ==
    /\ last.v.stage = "parsed"
    /\ last.v.result.isError = Some(FALSE) /\ last.v.result.meta = None
    /\ Len(last.v.result.content) = 2
    /\ DOMAIN last.v.json = {"content", "isError"}
    /\ last.v.back.ok

(***************************************************************************)
(* Properties of the fetch tool (SpecFetch).                                *)
(***************************************************************************)
Returned == last.v.stage = "returned"
Requested(r) == \E i \in 1..Len(last.v.requests) : last.v.requests[i] = r

\* C33: a call whose url is not a valid URL, and a call whose page request
\* is answered with status 404, return Ok with is_error true.
C33_FetchFailuresAreErrorResults ==
    (/\ Returned
     /\ \/ ~ValidUrl(last.v.props.url)
        \/ /\ Requested("page")
           /\ last.v.world.page.sent /\ last.v.world.page.status = 404) =>
        last.v.res.ok /\ last.v.res.val.isError = Some(TRUE)

\* robots.txt disallows the URL: the request for it was answered with a
\* status that is no client error and its rules deny the URL
Disallowed(w) ==
    w.robots.sent /\ w.robots.status \notin 400..499 /\ w.robots.body = "disallows"

\* C34: for a valid URL the request for robots.txt comes before the request
\* for the page; when robots.txt disallows the URL the result is an error
\* result and the page is not requested, and in every other case (allowed,
\* missing, not fetched) the page is requested.
C34_RobotsBeforePage ==
    (Returned /\ ValidUrl(last.v.props.url)) =>
        /\ Requested("page") =>
              last.v.requests = <<"/robots.txt", "page">>
        /\ Disallowed(last.v.world) =>
              /\ last.v.res.ok /\ last.v.res.val.isError = Some(TRUE)
              /\ ~Requested("page")
        /\ ~Disallowed(last.v.world) => Requested("page")

\* the content Fetch limits: the body as it is, or what the extraction
\* made of an HTML page
ContentOf(props, w) ==
    IF (props.raw.some /\ props.raw.v)
       \/ ~(StartsWithHtml(w.page.body.chars) \/ w.page.content_type = "text/html")
    THEN w.page.body.chars
    ELSE w.extract.val

\* the characters of t from character index start, at most max of them
CharsFrom(t, start, max) ==
    IF start >= Len(t) THEN <<>>
    ELSE SubSeq(t, start + 1, IF start + max < Len(t) THEN start + max ELSE Len(t))

\* C35: the text returned is the content from character index start_index
\* (0 when not given), at most max_length characters of it (5000 when not
\* given), and empty when start_index is at or beyond the end.
C35_TextIsLimitedContent ==
    (/\ Returned
     /\ Requested("page")
     /\ last.v.world.page.sent /\ last.v.world.page.body.read
     /\ \/ last.v.props.raw = Some(TRUE)
        \/ ~(StartsWithHtml(last.v.world.page.body.chars)
             \/ last.v.world.page.content_type = "text/html")
        \/ last.v.world.extract.ok) =>
        /\ last.v.res.ok
        /\ TextOf(last.v.res) =
              Join(CharsFrom(ContentOf(last.v.props, last.v.world),
                             IF last.v.props.start_index.some
                             THEN last.v.props.start_index.v ELSE 0,
                             IF last.v.props.max_length.some
                             THEN last.v.props.max_length.v ELSE DefaultMaxLength))

(***************************************************************************)
(* Properties of responses and connections (SpecWs).                        *)
(***************************************************************************)
\* C36: every response written to a connection answers a request read from
\* that connection.
C36_ResponseOnRequestConnection ==
    \A j \in DOMAIN wire : wire[j].conn = wire[j].from

(***************************************************************************)
(* Properties of the scheduled server (SpecLive).                           *)
(***************************************************************************)
\* the n-th line is a request and is in the channel or in the loop's hands
Held(n) ==
    \/ \E i \in DOMAIN queue : queue[i].n = n /\ IsRequest(queue[i].m)
    \/ cur.n = n /\ dpc \in {"handle", "send"} /\ IsRequest(cur.m)

\* one response was written for the n-th line, and it carries the line's id
Answered(n) ==
    \E k \in DOMAIN log :
        /\ log[k].n = n
        /\ Cardinality(SentFor(n)) = 1
        /\ \A i \in SentFor(n) :
              outbound[i].ok /\ outbound[i].response.id = log[k].m.id

\* C37: with stdio and no write failing, every request that was read is
\* eventually answered; and at all times a request has at most one response
\* line, which carries the request's id, and has exactly one once the loop
\* is through with it.
C37_RequestsAnsweredOnce ==
    /\ [](\A k \in DOMAIN log :
            IsRequest(log[k].m) =>
                /\ log[k].response # EmptyString
                /\ log[k].response.id = log[k].m.id
                /\ Cardinality(SentFor(log[k].n)) <= 1
                /\ \A i \in SentFor(log[k].n) :
                      outbound[i].response = log[k].response
                /\ Completed(log[k].n) => Cardinality(SentFor(log[k].n)) = 1)
    /\ \A n \in 1..MaxMsgs : Held(n) ~> Answered(n)

\* two requests were read and each has its one response, the loop has ended
C37_Witness ==
    /\ dpc = "done" /\ Len(log) = 2
    /\ \A k \in 1..2 : IsRequest(log[k].m) /\ Answered(k)
    /\ log[1].response.kind = "result" /\ log[2].response.kind = "error"

(***************************************************************************)
(* Properties of shutdown (SpecShutdown).                                   *)
(***************************************************************************)
\* every line that was enqueued has been handled, in order, and each
\* response has been written, once
Drained ==
    /\ queue = <<>>
    /\ Len(log) = nread
    /\ \A k \in DOMAIN log :
          /\ log[k].n = k
          /\ log[k].response # EmptyString =>
                /\ Cardinality(SentFor(k)) = 1
                /\ \A i \in SentFor(k) : outbound[i].ok

\* C39 as stated: once start has ended, start_server returns only with
\* every enqueued line handled and answered, and returns Ok.
C39_ShutdownDrains ==
    (rpc = "done" /\ dpc \in {"done", "failed"}) => (dpc = "done" /\ Drained)

\* C39, amended: once start has ended (end of input, read error, undecodable
\* line), start_server returns; it returns Ok only with every enqueued line
\* handled in order and answered, and it returns Err, leaving lines in the
\* channel, only when a write has failed.
C39_ShutdownDrainsUnlessWriteFails ==
    /\ [](dpc = "done" => rpc = "done" /\ Drained)
    /\ [](dpc = "failed" => ~outbound[Len(outbound)].ok)
    /\ (rpc = "done" ~> dpc \in {"done", "failed"})

\* the input ended, both lines read were handled and answered, and the loop
\* has ended
C39_Witness ==
    /\ ended = "eof" /\ rpc = "done" /\ dpc = "done"
    /\ nread = 2 /\ Len(outbound) = 2 /\ Drained

====
